---- MODULE Spec2Model ----
(***************************************************************************)
(* Verification model of the SFH-OS numeric core:                          *)
(*   - geometry server  (profile synthesis, Mandelbrot escape sampler,     *)
(*                       geometry comparison)                              *)
(*   - acoustics server (inline impedance engine, acoustic comparison)     *)
(*                                                                         *)
(* JavaScript numbers are modelled as fixed-point integers: a real x is    *)
(* the integer x * Scale, products are rescaled and truncated toward zero  *)
(* (Mul, Div).  Lengths are carried in 1/Scale mm, frequencies in 1/10 Hz  *)
(* (the resolution generateFrequencies rounds to).  A computation whose    *)
(* double result is NaN or +-Infinity is modelled by the value NaN.        *)
(***************************************************************************)
EXTENDS Integers, Sequences, FiniteSets, TLC

\* fn: the function or tool handler invoked, args: its arguments,
\* pc: "running" | "returned" | "threw", ret: what it returned,
\* results: the per-candidate results of a handler that fans out
VARIABLES fn, args, pc, ret, results

vars == <<fn, args, pc, ret, results>>

\* ret, or results[i], while the call (or the candidate's task) is running
Pending == [pending |-> TRUE]

(***************************************************************************)
(* Fixed-point arithmetic                                                  *)
(***************************************************************************)
\* resolution of the fixed-point representation of a number
Scale == 10 ^ 3

Abs(x) == IF x >= 0 THEN x ELSE -x

Min(a, b) == IF a <= b THEN a ELSE b

\* a / b truncated toward zero, b > 0
Div(a, b) == IF a >= 0 THEN a \div b ELSE -((-a) \div b)

\* a * b of two fixed-point numbers
Mul(a, b) == Div(a * b, Scale)

RECURSIVE SqrtBisect(_, _, _)
SqrtBisect(n, lo, hi) ==
  IF lo >= hi THEN lo
  ELSE LET mid == (lo + hi + 1) \div 2
       IN  IF mid * mid <= n THEN SqrtBisect(n, mid, hi)
                             ELSE SqrtBisect(n, lo, mid - 1)

\* floor of the square root of the integer n >= 0
ISqrt(n) == SqrtBisect(n, 0, 46340)

\* Math.sqrt of a fixed-point number x >= 0
Sqrt(x) == ISqrt(x * Scale)

\* Math.PI, 2 * Math.PI and Math.PI / 2 as fixed-point numbers
Pi == Div(31416 * Scale, 10 ^ 4)

TwoPi == Div(62832 * Scale, 10 ^ 4)

HalfPi == Div(15708 * Scale, 10 ^ 4)

\* Taylor polynomial of sin on [-pi/2, pi/2]
SinPoly(x) ==
  LET x2 == Mul(x, x)
      x3 == Mul(x2, x)
      x5 == Mul(x3, x2)
      x7 == Mul(x5, x2)
  IN  x - Div(x3, 6) + Div(x5, 120) - Div(x7, 5040)

\* Math.sin of a fixed-point angle x >= 0 (radians)
Sin(x) ==
  LET r == x % TwoPi
      v == IF r <= HalfPi THEN SinPoly(r)
           ELSE IF r <= Pi + HalfPi THEN SinPoly(Pi - r)
           ELSE SinPoly(r - TwoPi)
  IN  IF v > Scale THEN Scale ELSE IF v < -Scale THEN -Scale ELSE v

\* Math.cos of a fixed-point angle x >= 0 (radians)
Cos(x) == Sin(x + HalfPi)

\* Math.log(2) as a fixed-point number
Ln2 == Div(6931 * Scale, 10 ^ 4)

\* 2 * atanh(y) for 0 <= y < 1/3: ln(m) with y = (m - 1) / (m + 1), 1 <= m < 2
LnPoly(y) ==
  LET y2 == Mul(y, y)
      y3 == Mul(y2, y)
      y5 == Mul(y3, y2)
      y7 == Mul(y5, y2)
  IN  2 * (y + Div(y3, 3) + Div(y5, 5) + Div(y7, 7))

RECURSIVE LnReduce(_, _)
LnReduce(x, k) ==
  IF x >= 2 * Scale THEN LnReduce(Div(x, 2), k + 1)
  ELSE IF x < Scale THEN LnReduce(x * 2, k - 1)
  ELSE k * Ln2 + LnPoly(Div((x - Scale) * Scale, x + Scale))

\* Math.log of a fixed-point number x > 0
Ln(x) == LnReduce(x, 0)

\* Taylor polynomial of exp on (-ln 2, 0]
ExpPoly(r) ==
  LET r2 == Mul(r, r)
      r3 == Mul(r2, r)
      r4 == Mul(r3, r)
      r5 == Mul(r4, r)
  IN  Scale + r + Div(r2, 2) + Div(r3, 6) + Div(r4, 24) + Div(r5, 120)

RECURSIVE ExpReduce(_, _)
ExpReduce(x, k) ==
  IF x <= -Ln2 THEN ExpReduce(x + Ln2, k + 1)
  ELSE IF x > 0 THEN ExpReduce(x - Ln2, k - 1)
  ELSE IF k >= 0 THEN Div(ExpPoly(x), 2 ^ k)
  ELSE ExpPoly(x) * 2 ^ (-k)

\* Math.exp of a fixed-point number
Exp(x) ==
  IF x = 0 THEN Scale
  ELSE IF x <= -7 * Scale THEN 0
  ELSE ExpReduce(x, 0)

\* Math.pow(b, e) of fixed-point numbers b >= 0, e >= 0
Pow(b, e) ==
  IF e = 0 THEN Scale
  ELSE IF e = Scale THEN b
  ELSE IF b = 0 THEN 0
  ELSE Exp(Mul(e, Ln(b)))

\* the result of a computation that is NaN or infinite in double arithmetic
NaN == -(2 ^ 30)

(***************************************************************************)
(* Geometry server: Mandelbrot escape sampler                              *)
(***************************************************************************)
\* MandelbrotParams.iterations: z.number().min(10).max(1000)
MinIterations == 10

MaxIterations == 1000

\* largest iteration count the model draws
MaxIterModel == 12

\* |z|^2 of the fixed-point complex number (zReal, zImag)
Norm2(zReal, zImag) == Mul(zReal, zReal) + Mul(zImag, zImag)

RECURSIVE EscapeLoopChecksFirst(_, _, _, _, _, _)
EscapeLoopChecksFirst(cReal, cImag, maxIter, i, zReal, zImag) ==
  IF i >= maxIter THEN maxIter
  ELSE IF Norm2(zReal, zImag) > 4 * Scale THEN i
  ELSE EscapeLoopChecksFirst(cReal, cImag, maxIter, i + 1,
                             Mul(zReal, zReal) - Mul(zImag, zImag) + cReal,
                             Mul(2 * zReal, zImag) + cImag)

\* the for loop of computeMandelbrotEscape from iteration i on
RECURSIVE EscapeLoop(_, _, _, _, _, _)
EscapeLoop(cReal, cImag, maxIter, i, zReal, zImag) ==
  IF i >= maxIter THEN maxIter
  ELSE LET zRealNew == Mul(zReal, zReal) - Mul(zImag, zImag) + cReal
           zImagNew == Mul(2 * zReal, zImag) + cImag
       IN  IF Norm2(zRealNew, zImagNew) > 4 * Scale THEN i
           ELSE EscapeLoop(cReal, cImag, maxIter, i + 1, zRealNew, zImagNew)

\* variant that tests z_i before computing z_(i+1)
computeMandelbrotEscapeChecksFirst(cReal, cImag, maxIter) ==
  EscapeLoopChecksFirst(cReal, cImag, maxIter, 0, 0, 0)

computeMandelbrotEscape(cReal, cImag, maxIter) ==
  EscapeLoop(cReal, cImag, maxIter, 0, 0, 0)

(***************************************************************************)
(* Geometry server: profile synthesis                                      *)
(***************************************************************************)
\* sample intervals of a synthesized profile (points, 100 at every call)
Points == 100

\* the profile sample pushed for index i: {z, radius}
ExpansionSample(throat, mouth, length, points, type, i) ==
  LET t == Div(i * Scale, points)
      z == Mul(length, t)
      radius ==
        IF type = "hilbert"
        THEN throat + Mul(mouth - throat,
                          3 * Mul(t, t) - 2 * Mul(Mul(t, t), t))
        ELSE throat + Mul(mouth - throat, Pow(t, Div(13 * Scale, 10)))
  IN  [z |-> z, radius |-> radius]

\* variant whose loop stops before i = points
generateExpansionProfileExclusive(throat, mouth, length, points, type) ==
  [k \in 1..points |->
     ExpansionSample(throat, mouth, length, points, type, k - 1)]

generateExpansionProfile(throat, mouth, length, points, type) ==
  [k \in 1..(points + 1) |->
     ExpansionSample(throat, mouth, length, points, type, k - 1)]

\* the power-law base curve of the Mandelbrot mode at normalized position t
BaseRadius(throat, mouth, t) ==
  throat + Mul(mouth - throat, Pow(t, Div(12 * Scale, 10)))

\* variant with a modulation amplitude of 0.5 instead of 0.05
MandelbrotSampleWideModulation(cReal, cImag, throat, mouth, length, iterations, i) ==
  LET t == Div(i * Scale, Points)
      angle == Mul(t, TwoPi)
      escape == computeMandelbrotEscape(
                  cReal + Mul(Div(Scale, 10), Cos(angle)),
                  cImag + Mul(Div(Scale, 10), Sin(angle)), iterations)
      fractalDetail == Div(escape * Scale, iterations)
      modulation == Scale + Mul(Mul(Div(5 * Scale, 10), fractalDetail),
                                Sin(t * 20))
  IN  [z |-> Mul(length, t),
       radius |-> Mul(BaseRadius(throat, mouth, t), modulation),
       fractal_detail |-> fractalDetail]

\* the profile sample pushed for index i: {z, radius, fractal_detail}
MandelbrotSample(cReal, cImag, throat, mouth, length, iterations, i) ==
  LET t == Div(i * Scale, Points)
      z == Mul(length, t)
      angle == Mul(t, TwoPi)
      escape == computeMandelbrotEscape(
                  cReal + Mul(Div(Scale, 10), Cos(angle)),
                  cImag + Mul(Div(Scale, 10), Sin(angle)), iterations)
      fractalDetail == Div(escape * Scale, iterations)
      baseRadius == BaseRadius(throat, mouth, t)
      modulation == Scale + Mul(Mul(Div(5 * Scale, 100), fractalDetail),
                                Sin(t * 20))
      radius == Mul(baseRadius, modulation)
  IN  [z |-> z, radius |-> radius, fractal_detail |-> fractalDetail]

generateMandelbrotProfile(cReal, cImag, throat, mouth, length, iterations) ==
  [k \in 1..(Points + 1) |->
     MandelbrotSample(cReal, cImag, throat, mouth, length, iterations, k - 1)]

\* HilbertParams.order: z.number().min(1).max(6)
MinOrder == 1

MaxOrder == 6

\* PeanoParams.iterations: z.number().min(1).max(5)
MinPeanoIterations == 1

MaxPeanoIterations == 5

\* throat and mouth diameters drawn: 25.4 mm, 300 mm, 1 mm
Diameters == {Div(254 * Scale, 10), 300 * Scale, Scale}

\* lengths drawn: 400 mm, 123.457 mm, 1 mm
Lengths == {400 * Scale, Div(123457 * Scale, 1000), Scale}

\* Mandelbrot constants drawn: the default (-0.75, 0), one on the boundary
\* (0.3, 0) and one that escapes everywhere (0.5, 1)
MandelbrotConstants ==
  {<<-Div(75 * Scale, 100), 0>>, <<Div(3 * Scale, 10), 0>>,
   <<Div(5 * Scale, 10), Scale>>}

HilbertInputs ==
  [order : MinOrder..MaxOrder, throat_diameter_mm : Diameters,
   mouth_diameter_mm : Diameters, length_mm : Lengths]

PeanoInputs ==
  [iterations : MinPeanoIterations..MaxPeanoIterations,
   throat_diameter_mm : Diameters, mouth_diameter_mm : Diameters,
   length_mm : Lengths]

MandelbrotInputs ==
  [c : MandelbrotConstants, iterations : MinIterations..MaxIterModel,
   throat_diameter_mm : Diameters, mouth_diameter_mm : Diameters,
   length_mm : Lengths]

\* The three generation tools of the analytic geometry server.  The response
\* carries the fields the properties read; path_length_mm, fractal_dimension
\* and expansion_ratio are not modelled.
InitGenerate ==
  /\ \/ fn = "generate_hilbert" /\ args \in HilbertInputs
     \/ fn = "generate_peano" /\ args \in PeanoInputs
     \/ fn = "generate_mandelbrot" /\ args \in MandelbrotInputs
  /\ pc = "running"
  /\ ret = Pending
  /\ results = <<>>

generate_hilbert ==
  /\ fn = "generate_hilbert"
  /\ pc = "running"
  /\ pc' = "returned"
  /\ ret' = [curve_type |-> "hilbert",
             order |-> args.order,
             num_points |-> 2 ^ (3 * args.order),
             throat_diameter_mm |-> args.throat_diameter_mm,
             mouth_diameter_mm |-> args.mouth_diameter_mm,
             length_mm |-> args.length_mm,
             profile_points |->
               generateExpansionProfile(args.throat_diameter_mm,
                 args.mouth_diameter_mm, args.length_mm, Points, "hilbert")]
  /\ UNCHANGED <<fn, args, results>>

generate_peano ==
  /\ fn = "generate_peano"
  /\ pc = "running"
  /\ pc' = "returned"
  /\ ret' = [curve_type |-> "peano",
             iterations |-> args.iterations,
             num_points |-> 3 ^ (3 * args.iterations),
             throat_diameter_mm |-> args.throat_diameter_mm,
             mouth_diameter_mm |-> args.mouth_diameter_mm,
             length_mm |-> args.length_mm,
             profile_points |->
               generateExpansionProfile(args.throat_diameter_mm,
                 args.mouth_diameter_mm, args.length_mm, Points, "peano")]
  /\ UNCHANGED <<fn, args, results>>

generate_mandelbrot ==
  /\ fn = "generate_mandelbrot"
  /\ pc = "running"
  /\ pc' = "returned"
  /\ ret' = [curve_type |-> "mandelbrot",
             c |-> [real |-> args.c[1], imag |-> args.c[2]],
             iterations |-> args.iterations,
             throat_diameter_mm |-> args.throat_diameter_mm,
             mouth_diameter_mm |-> args.mouth_diameter_mm,
             length_mm |-> args.length_mm,
             profile_points |->
               generateMandelbrotProfile(args.c[1], args.c[2],
                 args.throat_diameter_mm, args.mouth_diameter_mm,
                 args.length_mm, args.iterations)]
  /\ UNCHANGED <<fn, args, results>>

NextGenerate == generate_hilbert \/ generate_peano \/ generate_mandelbrot

SpecGenerate == InitGenerate /\ [][NextGenerate]_vars

Generated ==
  /\ fn \in {"generate_hilbert", "generate_peano", "generate_mandelbrot"}
  /\ pc = "returned"

\* C4: in the curve-order (Hilbert) mode the first profile sample has
\* radius = throat_diameter / 2 and z = 0, and the last sample has
\* radius = mouth_diameter / 2 and z = length.
C4_EndRadiiAreHalfDiameters ==
  (fn = "generate_hilbert" /\ pc = "returned") =>
    LET p == ret.profile_points
    IN  /\ p[1].z = 0
        /\ 2 * p[1].radius = ret.throat_diameter_mm
        /\ p[Len(p)].z = ret.length_mm
        /\ 2 * p[Len(p)].radius = ret.mouth_diameter_mm

\* C5: in every generation mode the profile has a fixed number of samples
\* (Points + 1), z runs from 0 to length, strictly increasing and evenly
\* spaced (to one unit of the fixed-point resolution), and every radius is
\* strictly positive.
C5_ProfileWellFormed ==
  Generated =>
    LET p == ret.profile_points
    IN  /\ Len(p) = Points + 1
        /\ p[1].z = 0
        /\ p[Len(p)].z = ret.length_mm
        /\ \A k \in 1..(Len(p) - 1) :
              /\ p[k].z < p[k + 1].z
              /\ Abs((p[k + 1].z - p[k].z) - (p[2].z - p[1].z)) <= 1
        /\ \A k \in 1..Len(p) : p[k].radius > 0

\* a contracting Mandelbrot profile (mouth < throat) whose modulation makes
\* the radius rise between two samples
C5_Witness ==
  /\ fn = "generate_mandelbrot"
  /\ pc = "returned"
  /\ ret.mouth_diameter_mm < ret.throat_diameter_mm
  /\ \E k \in 1..Points :
       ret.profile_points[k + 1].radius > ret.profile_points[k].radius

\* C6: in Mandelbrot mode every sample's fractal_detail lies in [0, 1] and
\* its radius differs from the power-law base radius
\* throat + (mouth - throat) * t^1.2 by at most 5% of that base radius
\* (to one unit of the fixed-point resolution).
C6_ModulationBounded ==
  (fn = "generate_mandelbrot" /\ pc = "returned") =>
    \A k \in 1..Len(ret.profile_points) :
      LET smp == ret.profile_points[k]
          base == BaseRadius(ret.throat_diameter_mm, ret.mouth_diameter_mm,
                             Div((k - 1) * Scale, Points))
      IN  /\ 0 <= smp.fractal_detail
          /\ smp.fractal_detail <= Scale
          /\ 20 * Abs(smp.radius - base) <= base + 20

\* a Mandelbrot profile with samples that never escape, samples that escape
\* late, and a radius pushed off the base curve by more than 2%
C6_Witness ==
  /\ fn = "generate_mandelbrot"
  /\ pc = "returned"
  /\ \E k \in 1..Len(ret.profile_points) :
       LET smp == ret.profile_points[k]
       IN  /\ 0 < smp.fractal_detail
           /\ smp.fractal_detail < Scale
  /\ \E k \in 1..Len(ret.profile_points) :
       LET smp == ret.profile_points[k]
           base == BaseRadius(ret.throat_diameter_mm, ret.mouth_diameter_mm,
                              Div((k - 1) * Scale, Points))
       IN  /\ smp.fractal_detail = Scale
           /\ 50 * Abs(smp.radius - base) > base

\* inputs of the escape sampler: c on a grid over [-2.5, 0.5] x [0, 1]
EscapeInputs ==
  [cReal : {Div(k * Scale, 4) - Div(5 * Scale, 2) : k \in 0..12},
   cImag : {Div(k * Scale, 4) : k \in 0..4},
   maxIter : MinIterations..MaxIterModel]

InitEscape ==
  /\ fn = "computeMandelbrotEscape"
  /\ args \in EscapeInputs
  /\ pc = "running"
  /\ ret = Pending
  /\ results = <<>>

EscapeCall ==
  /\ fn = "computeMandelbrotEscape"
  /\ pc = "running"
  /\ pc' = "returned"
  /\ ret' = computeMandelbrotEscape(args.cReal, args.cImag, args.maxIter)
  /\ UNCHANGED <<fn, args, results>>

NextEscape == EscapeCall

SpecEscape == InitEscape /\ [][NextEscape]_vars

(***************************************************************************)
(* The orbit of z -> z^2 + c as the claims speak of it: z_0 = 0,           *)
(* z_(n+1) = z_n^2 + c.  Once a point has left the disc |z|^2 <= 4 the     *)
(* orbit is held there, which leaves the first escaping index unchanged.   *)
(***************************************************************************)
RECURSIVE Orbit(_, _, _)
Orbit(cReal, cImag, n) ==
  IF n = 0 THEN <<0, 0>>
  ELSE LET p == Orbit(cReal, cImag, n - 1)
       IN  IF Norm2(p[1], p[2]) > 4 * Scale THEN p
           ELSE <<Mul(p[1], p[1]) - Mul(p[2], p[2]) + cReal,
                  Mul(2 * p[1], p[2]) + cImag>>

\* indices n in 0..N whose orbit point z_n has |z_n|^2 > 4
EscapedIndices(a) ==
  {n \in 0..a.maxIter :
     LET p == Orbit(a.cReal, a.cImag, n) IN Norm2(p[1], p[2]) > 4 * Scale}

SetMin(S) == CHOOSE m \in S : \A x \in S : m <= x

EscapeReturned == fn = "computeMandelbrotEscape" /\ pc = "returned"

\* C7 (as stated): computeMandelbrotEscape returns the index n of the first
\* orbit point z_n with |z_n|^2 > 4, returns N exactly when no orbit point
\* escapes, and the result is in [0, N].
C7_ReturnsOrbitIndex ==
  EscapeReturned =>
    LET E == EscapedIndices(args)
    IN  /\ ret \in 0..args.maxIter
        /\ E # {} => ret = SetMin(E)
        /\ ret = args.maxIter <=> E = {}

\* C7 (amended): computeMandelbrotEscape returns n - 1 for the first orbit
\* point z_n with |z_n|^2 > 4 (the 0-based number of the loop iteration that
\* produced it), returns N exactly when none of z_1..z_N escapes, and the
\* result is in [0, N].
C7_ReturnsIterationIndex ==
  EscapeReturned =>
    LET E == EscapedIndices(args)
    IN  /\ ret \in 0..args.maxIter
        /\ E # {} => ret = SetMin(E) - 1
        /\ ret = args.maxIter <=> E = {}

\* an orbit that escapes after several iterations, before the limit
C7_Witness ==
  /\ EscapeReturned
  /\ ret >= 3
  /\ ret < args.maxIter
  /\ EscapedIndices(args) # {}

(***************************************************************************)
(* Acoustics server: inline impedance engine                               *)
(*                                                                         *)
(* Radii and lengths of a profile are in 1/Scale mm, frequencies in        *)
(* 1/10 Hz, impedances in 1e-4 Pa s/m^3.  The mouth radiation impedance    *)
(* (zRadReal, zRadImag) is computed by the code but never read, so it is   *)
(* not modelled.                                                           *)
(***************************************************************************)
\* speed of sound (m/s)
C_AIR == 343

\* air density (kg/m^3), 1.21
RHO_AIR == Div(121 * Scale, 100)

\* rho * c * throatArea for a throat radius
CharacteristicImpedance(throatRadius) ==
  LET throatArea == Mul(Pi, Div(throatRadius * throatRadius, Scale))
  IN  Div(Div(RHO_AIR * C_AIR, 10) * Div(throatArea, 100), 100 * Scale)

\* the horn cutoff frequency fc of a profile with non-zero throat radius,
\* mouth radius and length
CutoffFrequency(profile) ==
  LET mouthRadius == profile[Len(profile)].radius
      throatRadius == profile[1].radius
      q == Div(mouthRadius * Scale, throatRadius)
      expansionRatio == Mul(q, q)
      length == profile[Len(profile)].z
      flareConstant == Div(Ln(expansionRatio) * Scale * 100, Div(length, 10))
  IN  Div(C_AIR * flareConstant * 10, TwoPi)

\* a profile on which the flare constant is NaN or infinite
Degenerate(profile) ==
  \/ profile[1].radius = 0
  \/ profile[Len(profile)].radius = 0
  \/ profile[Len(profile)].z = 0

AllNaN ==
  [real |-> NaN, imag |-> NaN, magnitude |-> NaN, reflection |-> NaN]

\* variant that forgets Math.abs in the reflection coefficient
ThroatImpedanceSigned(profile, freq) ==
  LET z0 == CharacteristicImpedance(profile[1].radius)
      fc == CutoffFrequency(profile)
      r == Div(fc * Scale, freq)
      r2 == Mul(r, r)
      zThroatReal == IF freq > fc THEN Mul(z0, Sqrt(Scale - r2))
                     ELSE Mul(z0, Div(Scale, 10))
      zThroatImag == IF freq > fc THEN Mul(Mul(z0, r), Div(Scale, 2))
                     ELSE Mul(z0, Sqrt(r2 - Scale))
      magnitude == ISqrt(zThroatReal * zThroatReal + zThroatImag * zThroatImag)
      zNormalized == Div(magnitude * Scale, z0)
  IN  IF Degenerate(profile) \/ (freq > fc /\ r2 > Scale) THEN AllNaN
      ELSE [real |-> zThroatReal, imag |-> zThroatImag,
            magnitude |-> magnitude,
            reflection |-> IF z0 = 0 THEN NaN
                           ELSE Div((zNormalized - Scale) * Scale,
                                    zNormalized + Scale)]

\* one iteration of the loop of computeImpedanceInline: the throat impedance
\* and the reflection coefficient at frequency freq
ThroatImpedance(profile, freq) ==
  LET z0 == CharacteristicImpedance(profile[1].radius)
      fc == CutoffFrequency(profile)
      r == Div(fc * Scale, freq)
      r2 == Mul(r, r)
      zThroatReal == IF freq > fc THEN Mul(z0, Sqrt(Scale - r2))
                     ELSE Mul(z0, Div(Scale, 10))
      zThroatImag == IF freq > fc THEN Mul(Mul(z0, r), Div(Scale, 2))
                     ELSE Mul(z0, Sqrt(r2 - Scale))
      magnitude == ISqrt(zThroatReal * zThroatReal + zThroatImag * zThroatImag)
      zNormalized == Div(magnitude * Scale, z0)
      reflection == Abs(Div((zNormalized - Scale) * Scale,
                            zNormalized + Scale))
  IN  IF Degenerate(profile) \/ (freq > fc /\ r2 > Scale) THEN AllNaN
      ELSE [real |-> zThroatReal, imag |-> zThroatImag,
            magnitude |-> magnitude,
            reflection |-> IF z0 = 0 THEN NaN ELSE reflection]

computeImpedanceInline(profile, frequencies) ==
  [frequencies_hz |-> frequencies,
   impedance_real |->
     [k \in 1..Len(frequencies) |-> ThroatImpedance(profile, frequencies[k]).real],
   impedance_imag |->
     [k \in 1..Len(frequencies) |-> ThroatImpedance(profile, frequencies[k]).imag],
   impedance_magnitude |->
     [k \in 1..Len(frequencies) |->
        ThroatImpedance(profile, frequencies[k]).magnitude],
   reflection_coefficient |->
     [k \in 1..Len(frequencies) |->
        ThroatImpedance(profile, frequencies[k]).reflection]]

\* a two-sample profile from throat radius to mouth radius over length (mm)
Horn(throat, mouth, length) ==
  <<[z |-> 0, radius |-> throat], [z |-> length * Scale, radius |-> mouth]>>

\* profiles drawn: 12.7 -> 150 mm over 400 mm, 12.7 -> 50 mm over 300 mm,
\* a cylinder, 5 -> 150 mm over 100 mm, and a contracting 12.7 -> 5 mm horn
ImpedanceProfiles ==
  {Horn(Div(127 * Scale, 10), 150 * Scale, 400),
   Horn(Div(127 * Scale, 10), 50 * Scale, 300),
   Horn(Div(127 * Scale, 10), Div(127 * Scale, 10), 200),
   Horn(5 * Scale, 150 * Scale, 100),
   Horn(Div(127 * Scale, 10), 5 * Scale, 100)}

\* frequencies drawn: 500 Hz, 1 kHz, 20 kHz, and for every expanding profile
\* its cutoff frequency and one sweep resolution step (0.1 Hz) above it
ImpedanceFrequencies ==
  {5000, 10000, 200000}
    \cup {CutoffFrequency(p) + d :
            p \in {q \in ImpedanceProfiles : CutoffFrequency(q) > 0},
            d \in {0, 1}}

\* ascending sweeps of two frequencies
ImpedanceSweeps ==
  {w \in ImpedanceFrequencies \X ImpedanceFrequencies : w[1] < w[2]}

InitImpedance ==
  /\ fn = "computeImpedanceInline"
  /\ args \in [profile : ImpedanceProfiles, frequencies : ImpedanceSweeps]
  /\ pc = "running"
  /\ ret = Pending
  /\ results = <<>>

ImpedanceCall ==
  /\ fn = "computeImpedanceInline"
  /\ pc = "running"
  /\ pc' = "returned"
  /\ ret' = computeImpedanceInline(args.profile, args.frequencies)
  /\ UNCHANGED <<fn, args, results>>

NextImpedance == ImpedanceCall

SpecImpedance == InitImpedance /\ [][NextImpedance]_vars

ImpedanceReturned == fn = "computeImpedanceInline" /\ pc = "returned"

\* a valid profile: throat radius > 0, mouth radius >= throat radius,
\* length > 0
ValidProfile(profile) ==
  /\ profile[1].radius > 0
  /\ profile[Len(profile)].radius >= profile[1].radius
  /\ profile[Len(profile)].z > 0

\* C1: for a profile with cutoff fc > 0 the impedance magnitude is continuous
\* across fc: between two sweep points one resolution step apart, the lower
\* one at or below fc, the magnitude changes by no more than 5% of
\* rho * c * throatArea (there is no jump where the branch switches).
C1_MagnitudeContinuousAtCutoff ==
  (/\ ImpedanceReturned
   /\ ValidProfile(args.profile)
   /\ CutoffFrequency(args.profile) > 0
   /\ args.frequencies[2] = args.frequencies[1] + 1) =>
    20 * Abs(ret.impedance_magnitude[2] - ret.impedance_magnitude[1])
      <= CharacteristicImpedance(args.profile[1].radius)

ComplexReflection(re, im, z0) ==
  LET a == Div(re * Scale, z0)
      b == Div(im * Scale, z0)
  IN  Div(ISqrt((a - Scale) * (a - Scale) + b * b) * Scale,
          ISqrt((a + Scale) * (a + Scale) + b * b))

\* C3: the reflection coefficient equals |Z_norm - 1| / |Z_norm + 1| with
\* Z_norm the complex throat impedance divided by rho * c * throatArea
\* (to 1% of full scale), for every profile and frequency at which the
\* impedance is a number.
C3_ReflectionFromComplexImpedance ==
  ImpedanceReturned =>
    \A k \in 1..Len(ret.reflection_coefficient) :
      ret.reflection_coefficient[k] # NaN =>
        100 * Abs(ret.reflection_coefficient[k]
                  - ComplexReflection(ret.impedance_real[k],
                      ret.impedance_imag[k],
                      CharacteristicImpedance(args.profile[1].radius)))
          <= Scale

(***************************************************************************)
(* Acoustics server: logarithmic sweep and compare_geometries              *)
(***************************************************************************)
\* generateFrequencies: fMin and fMax in 1/10 Hz; the result is rounded to
\* 1/10 Hz by Math.round(f * 10) / 10
\* f = fMin * Math.pow(fMax / fMin, i / (points - 1)) for i = k - 1, in
\* 1/Scale of 1/10 Hz
LogInterpolation(fMin, fMax, points, k) ==
  fMin * Pow(Div(fMax * Scale, fMin), Div((k - 1) * Scale, points - 1))

\* variant that cuts the frequency to 1/10 Hz (Math.floor for Math.round)
generateFrequenciesTruncating(fMin, fMax, points) ==
  [k \in 1..points |-> Div(LogInterpolation(fMin, fMax, points, k), Scale)]

generateFrequencies(fMin, fMax, points) ==
  [k \in 1..points |->
     LET f == LogInterpolation(fMin, fMax, points, k)
     IN  Div(f + Div(Scale, 2), Scale)]

RECURSIVE Sum(_)
Sum(seq) == IF Len(seq) = 0 THEN 0 ELSE Head(seq) + Sum(Tail(seq))

\* a + b + ... of doubles: NaN as soon as one term is NaN
SumOrNaN(seq) ==
  IF \E k \in 1..Len(seq) : seq[k] = NaN THEN NaN ELSE Sum(seq)

\* the sweep of compare_geometries: generateFrequencies(500, 20000, 50)
CompareSweepMin == 500 * 10

CompareSweepMax == 20000 * 10

CompareSweepPoints == 50

\* mean, std, smoothness, avg_reflection and score of one impedance sweep
SweepMetrics(profile, impedance) ==
  LET n == Len(impedance.impedance_magnitude)
      total == SumOrNaN(impedance.impedance_magnitude)
      mean == IF total = NaN THEN NaN ELSE Div(total, n)
      std == IF mean = NaN THEN NaN
             ELSE ISqrt(Div(Sum([k \in 1..n |->
                    (impedance.impedance_magnitude[k] - mean)
                      * (impedance.impedance_magnitude[k] - mean)]), n))
      smoothness == IF mean = NaN \/ mean = 0 THEN NaN
                    ELSE IF Scale - Div(std * Scale, mean) > 0
                         THEN Scale - Div(std * Scale, mean)
                         ELSE 0
      reflSum == SumOrNaN(impedance.reflection_coefficient)
      avgReflection == IF reflSum = NaN THEN NaN ELSE Div(reflSum, n)
      score == IF smoothness = NaN \/ avgReflection = NaN THEN NaN
               ELSE Div(smoothness * (Scale - avgReflection) + Div(Scale, 2),
                        Scale)
  IN  [throat_mm |-> profile[1].radius * 2,
       mouth_mm |-> profile[Len(profile)].radius * 2,
       length_mm |-> profile[Len(profile)].z,
       impedance_smoothness |-> smoothness,
       avg_reflection |-> avgReflection,
       score |-> score]

\* the metrics compare_geometries derives from a parsed, non-empty profile:
\* the sweep is generated once, the impedance computed once over it
CandidateMetrics(profile) ==
  CHOOSE metrics \in
    {SweepMetrics(profile, impedance) :
       impedance \in
         {computeImpedanceInline(profile, frequencies) :
            frequencies \in
              {generateFrequencies(CompareSweepMin, CompareSweepMax,
                                   CompareSweepPoints)}}} : TRUE

\* The files a candidate path may name.  A file is absent (readFile throws),
\* holds text that is no JSON (JSON.parse throws), or holds a JSON array of
\* samples: two horns of different score, a three-sample horn with the end
\* samples (and so the score) of the first, a one-sample profile (length 0,
\* every impedance NaN), the empty array, and a horn whose throat is so
\* small that its area, and with it every impedance magnitude, underflows
\* to 0 (magnitude / 0 makes the reflection coefficient NaN).
FileContent ==
  [a |-> [kind |-> "json",
          profile |-> Horn(Div(127 * Scale, 10), 150 * Scale, 400)],
   b |-> [kind |-> "json",
          profile |-> Horn(Div(127 * Scale, 10), 50 * Scale, 300)],
   c |-> [kind |-> "json",
          profile |-> <<[z |-> 0, radius |-> Div(127 * Scale, 10)],
                        [z |-> 200 * Scale, radius |-> 40 * Scale],
                        [z |-> 400 * Scale, radius |-> 150 * Scale]>>],
   d |-> [kind |-> "json",
          profile |-> <<[z |-> 0, radius |-> Div(127 * Scale, 10)]>>],
   e |-> [kind |-> "json", profile |-> <<>>],
   tiny |-> [kind |-> "json",
             profile |-> <<[z |-> 0, radius |-> 1],
                           [z |-> 400 * Scale, radius |-> 30]>>],
   missing |-> [kind |-> "absent"],
   garbage |-> [kind |-> "text"]]

Paths == DOMAIN FileContent

\* variant whose catch block returns zeroed metrics instead of an error
EvaluateCandidateDefaultMetrics(profilePath) ==
  LET file == FileContent[profilePath]
  IN  IF file.kind # "json" \/ Len(file.profile) = 0
      THEN [path |-> profilePath,
            metrics |-> [throat_mm |-> 0, mouth_mm |-> 0, length_mm |-> 0,
                         impedance_smoothness |-> 0, avg_reflection |-> 0,
                         score |-> 0]]
      ELSE [path |-> profilePath, metrics |-> CandidateMetrics(file.profile)]

\* the value one candidate's async callback resolves to
EvaluateCandidate(profilePath) ==
  LET file == FileContent[profilePath]
  IN  IF file.kind = "absent"
      THEN [path |-> profilePath,
            error |-> "ENOENT: no such file or directory"]
      ELSE IF file.kind = "text"
      THEN [path |-> profilePath, error |-> "Unexpected token in JSON"]
      ELSE IF Len(file.profile) = 0
      THEN [path |-> profilePath,
            error |-> "Cannot read properties of undefined"]
      ELSE [path |-> profilePath, metrics |-> CandidateMetrics(file.profile)]

\* EvaluateCandidate of every path, computed once
CandidateResult == [q \in Paths |-> EvaluateCandidate(q)]

\* profile_paths: z.array(z.string()).min(2).max(5)
MinCandidates == 2

MaxCandidates == 5

\* most candidates the model draws for one comparison
MaxCandidatesModel == 3

\* the comparator (a, b) => b.metrics[field] - a.metrics[field] as the sort
\* reads it: a NaN result counts as 0
MetricOrder(x, y, field) ==
  IF x.metrics[field] = NaN \/ y.metrics[field] = NaN THEN 0
  ELSE y.metrics[field] - x.metrics[field]

\* Array.prototype.sort on a short array, as the engine runs it: find the
\* initial run (reversed when strictly descending under the comparator),
\* then insert every later element by binary search after its equals.
RECURSIVE RunEnd(_, _, _, _)
RunEnd(w, field, descending, idx) ==
  IF idx > Len(w) THEN Len(w)
  ELSE LET order == MetricOrder(w[idx], w[idx - 1], field)
       IN  IF (descending /\ order >= 0) \/ (~descending /\ order < 0)
           THEN idx - 1
           ELSE RunEnd(w, field, descending, idx + 1)

Reverse(w) == [k \in 1..Len(w) |-> w[Len(w) + 1 - k]]

\* the 0-based insertion point of pivot in w[left + 1 .. right]
RECURSIVE InsertionPoint(_, _, _, _, _)
InsertionPoint(w, field, pivot, left, right) ==
  IF left >= right THEN left
  ELSE LET mid == left + ((right - left) \div 2)
       IN  IF MetricOrder(pivot, w[mid + 1], field) < 0
           THEN InsertionPoint(w, field, pivot, left, mid)
           ELSE InsertionPoint(w, field, pivot, mid + 1, right)

\* w with w[start + 1 ..] inserted one by one into the sorted w[1 .. start]
RECURSIVE BinaryInsertionSort(_, _, _)
BinaryInsertionSort(w, field, start) ==
  IF start >= Len(w) THEN w
  ELSE LET pivot == w[start + 1]
           left == InsertionPoint(w, field, pivot, 0, start)
       IN  BinaryInsertionSort(
             SubSeq(w, 1, left) \o <<pivot>> \o SubSeq(w, left + 1, start)
               \o SubSeq(w, start + 2, Len(w)),
             field, start + 1)

\* w.sort((a, b) => b.metrics[field] - a.metrics[field])
SortByMetric(w, field) ==
  IF Len(w) < 2 THEN w
  ELSE LET descending == MetricOrder(w[2], w[1], field) < 0
           run == RunEnd(w, field, descending, 3)
           made == IF descending
                   THEN Reverse(SubSeq(w, 1, run)) \o SubSeq(w, run + 1, Len(w))
                   ELSE w
       IN  BinaryInsertionSort(made, field, run)

\* results.filter((r) => "metrics" in r)
RECURSIVE WithMetrics(_)
WithMetrics(rs) ==
  IF Len(rs) = 0 THEN <<>>
  ELSE IF "metrics" \in DOMAIN Head(rs)
       THEN <<Head(rs)>> \o WithMetrics(Tail(rs))
       ELSE WithMetrics(Tail(rs))

\* the comparisons drawn: MinCandidates to MaxCandidatesModel paths
CandidateLists ==
  UNION {[1..n -> Paths] :
           n \in MinCandidates..Min(MaxCandidatesModel, MaxCandidates)}

InitCompare ==
  /\ fn = "acoustics.compare_geometries"
  /\ \E paths \in CandidateLists :
       /\ args = [profile_paths |-> paths]
       /\ results = [k \in 1..Len(paths) |-> Pending]
  /\ pc = "running"
  /\ ret = Pending

\* variant that keeps the value of candidate i at the mirrored index
EvaluateAtMirroredIndex(i) ==
  /\ fn = "acoustics.compare_geometries"
  /\ pc = "running"
  /\ results[Len(results) + 1 - i] = Pending
  /\ results' = [results EXCEPT ![Len(results) + 1 - i] =
                                  CandidateResult[args.profile_paths[i]]]
  /\ UNCHANGED <<fn, args, pc, ret>>

\* the async callback of candidate i completes (Promise.all keeps its value
\* at index i, whatever the completion order)
Evaluate(i) ==
  /\ fn = "acoustics.compare_geometries"
  /\ pc = "running"
  /\ results[i] = Pending
  /\ results' = [results EXCEPT ![i] = CandidateResult[args.profile_paths[i]]]
  /\ UNCHANGED <<fn, args, pc, ret>>

\* Promise.all has resolved: rank and return
Rank ==
  /\ fn = "acoustics.compare_geometries"
  /\ pc = "running"
  /\ \A k \in 1..Len(results) : results[k] # Pending
  /\ LET ranked == SortByMetric(WithMetrics(results), "score")
     IN  ret' = [comparisons |-> results,
                 ranking |-> [k \in 1..Len(ranked) |-> ranked[k].path],
                 best |-> IF Len(ranked) > 0 THEN ranked[1].path ELSE "null"]
  /\ pc' = "returned"
  /\ UNCHANGED <<fn, args, results>>

NextCompare == (\E i \in 1..Len(results) : Evaluate(i)) \/ Rank

SpecCompare == InitCompare /\ [][NextCompare]_vars

CompareReturned == fn = "acoustics.compare_geometries" /\ pc = "returned"

\* the input positions of the candidates that have metrics
Ranked(comparisons) ==
  {k \in 1..Len(comparisons) : "metrics" \in DOMAIN comparisons[k]}

\* the one-to-one assignments of ranking positions to input positions
Placements(comparisons) ==
  {f \in [1..Cardinality(Ranked(comparisons)) -> Ranked(comparisons)] :
     \A k, l \in DOMAIN f : k # l => f[k] # f[l]}

\* C8: the ranking lists the candidates in descending order of score, and
\* candidates of equal score in their input order.  (A candidate whose score
\* is NaN is not compared.)
C8_RankingDescendingStable ==
  CompareReturned =>
    \E f \in Placements(ret.comparisons) :
      /\ Len(ret.ranking) = Cardinality(Ranked(ret.comparisons))
      /\ \A k \in DOMAIN f : ret.ranking[k] = ret.comparisons[f[k]].path
      /\ \A k, l \in DOMAIN f :
           LET sk == ret.comparisons[f[k]].metrics.score
               sl == ret.comparisons[f[l]].metrics.score
           IN  (k < l /\ sk # NaN /\ sl # NaN) =>
                 (sk > sl \/ (sk = sl /\ f[k] < f[l]))

RECURSIVE Count(_, _)
Count(seq, x) ==
  IF Len(seq) = 0 THEN 0
  ELSE (IF Head(seq) = x THEN 1 ELSE 0) + Count(Tail(seq), x)

\* a file that cannot be read, or whose text cannot be parsed
Unloadable(q) == FileContent[q].kind \in {"absent", "text"}

\* C9: the comparison never aborts; every input candidate appears exactly
\* once in 'comparisons' (at its input position); a candidate whose profile
\* cannot be read or parsed carries an error description there and is not
\* ranked; every candidate without error appears exactly once in 'ranking'.
C9_PartialFailuresReported ==
  fn = "acoustics.compare_geometries" =>
    /\ pc # "threw"
    /\ pc = "returned" =>
         /\ Len(ret.comparisons) = Len(args.profile_paths)
         /\ \A k \in 1..Len(ret.comparisons) :
              /\ ret.comparisons[k].path = args.profile_paths[k]
              /\ Unloadable(args.profile_paths[k]) =>
                   "error" \in DOMAIN ret.comparisons[k]
         /\ \A q \in Paths :
              Count(ret.ranking, q)
                = Cardinality({k \in 1..Len(ret.comparisons) :
                                 /\ ret.comparisons[k].path = q
                                 /\ "error" \notin DOMAIN ret.comparisons[k]})

\* a comparison of a missing file, an unparseable file and a good profile
\* that returned with only the good one ranked
C9_Witness ==
  /\ CompareReturned
  /\ \E k \in 1..Len(ret.comparisons) :
       FileContent[args.profile_paths[k]].kind = "absent"
  /\ \E k \in 1..Len(ret.comparisons) :
       FileContent[args.profile_paths[k]].kind = "text"
  /\ Len(ret.ranking) = 1
  /\ ret.best = ret.ranking[1]

\* what compare_geometries returns for profile_paths when the candidates
\* are evaluated one after the other, in input order
SequentialComparison(paths) ==
  LET comparisons == [k \in 1..Len(paths) |-> EvaluateCandidate(paths[k])]
      ranked == SortByMetric(WithMetrics(comparisons), "score")
  IN  [comparisons |-> comparisons,
       ranking |-> [k \in 1..Len(ranked) |-> ranked[k].path],
       best |-> IF Len(ranked) > 0 THEN ranked[1].path ELSE "null"]

\* C11: whatever the order in which the per-candidate evaluations complete,
\* compare_geometries returns what the sequential evaluation in input order
\* returns: 'comparisons' in input order, and 'ranking' and 'best' a
\* function of the candidates' results and input positions only.
C11_OutputIndependentOfCompletionOrder ==
  CompareReturned => ret = SequentialComparison(args.profile_paths)

\* the second candidate has completed while the first is still pending,
\* and the two candidates are different files with metrics
C11_Witness ==
  /\ fn = "acoustics.compare_geometries"
  /\ pc = "running"
  /\ results[1] = Pending
  /\ results[2] # Pending
  /\ "metrics" \in DOMAIN results[2]
  /\ args.profile_paths[1] # args.profile_paths[2]
  /\ FileContent[args.profile_paths[1]].kind = "json"

(***************************************************************************)
(* Geometry server: compare_geometries                                     *)
(***************************************************************************)
\* The artifacts directory.  For a geometry id there is no profile file
\* ("absent"), a listed file that cannot be read ("unreadable"), a file
\* whose text is no JSON ("text"), or a profile ("json").
GeometryArtifacts ==
  [g1 |-> [kind |-> "json", name |-> "hilbert_o4_g1_profile.json",
           profile |-> <<[z |-> 0, radius |-> Div(127 * Scale, 10)],
                         [z |-> 200 * Scale, radius |-> 40 * Scale],
                         [z |-> 400 * Scale, radius |-> 150 * Scale]>>],
   g2 |-> [kind |-> "json", name |-> "peano_i3_g2_profile.json",
           profile |-> Horn(Div(127 * Scale, 10), 150 * Scale, 400)],
   g3 |-> [kind |-> "unreadable", name |-> "hilbert_o2_g3_profile.json"],
   g4 |-> [kind |-> "text", name |-> "mandelbrot_cn0.75p0.00_g4_profile.json"],
   g5 |-> [kind |-> "absent"]]

GeometryIds == DOMAIN GeometryArtifacts

\* the for loop over the segments of a profile: pathLength in 1/10 mm
RECURSIVE PathLength(_, _)
PathLength(profile, i) ==
  IF i > Len(profile) THEN 0
  ELSE LET dr == Div(profile[i].radius - profile[i - 1].radius, Div(Scale, 10))
           dz == Div(profile[i].z - profile[i - 1].z, Div(Scale, 10))
       IN  ISqrt(dz * dz + dr * dr) + PathLength(profile, i + 1)

\* the first artifact of the id whose name ends in "_profile.json", if any
Matching(id) == GeometryArtifacts[id].kind # "absent"

\* the callback of a candidate throws: readFile or JSON.parse fails
Rejects(id) == GeometryArtifacts[id].kind \in {"unreadable", "text"}

\* the value the callback of a candidate that does not throw resolves to;
\* volume_mm3 and expansion_ratio are not modelled
GeometryCandidate(id) ==
  IF ~Matching(id) THEN [id |-> id, error |-> "Profile not found"]
  ELSE LET profile == GeometryArtifacts[id].profile
       IN  [id |-> id,
            type |-> IF id = "g1" THEN "hilbert" ELSE "peano",
            metrics |->
              [path_length_mm |-> PathLength(profile, 2),
               throat_diameter_mm |-> profile[1].radius * 2,
               mouth_diameter_mm |-> profile[Len(profile)].radius * 2]]

\* comparisons.filter((c) => !("error" in c))
RECURSIVE WithoutError(_)
WithoutError(cs) ==
  IF Len(cs) = 0 THEN <<>>
  ELSE IF "error" \notin DOMAIN Head(cs)
       THEN <<Head(cs)>> \o WithoutError(Tail(cs))
       ELSE WithoutError(Tail(cs))

GeometryIdLists ==
  UNION {[1..n -> GeometryIds] :
           n \in MinCandidates..Min(MaxCandidatesModel, MaxCandidates)}

InitGeometryCompare ==
  /\ fn = "geometry.compare_geometries"
  /\ \E ids \in GeometryIdLists :
       /\ args = [geometry_ids |-> ids]
       /\ results = [k \in 1..Len(ids) |-> Pending]
  /\ pc = "running"
  /\ ret = Pending

\* the async callback of candidate i resolves
GeometryResolve(i) ==
  /\ fn = "geometry.compare_geometries"
  /\ pc = "running"
  /\ results[i] = Pending
  /\ ~Rejects(args.geometry_ids[i])
  /\ results' = [results EXCEPT ![i] = GeometryCandidate(args.geometry_ids[i])]
  /\ UNCHANGED <<fn, args, pc, ret>>

\* the async callback of candidate i throws: Promise.all rejects and the
\* handler's await throws with it
GeometryReject(i) ==
  /\ fn = "geometry.compare_geometries"
  /\ pc = "running"
  /\ results[i] = Pending
  /\ Rejects(args.geometry_ids[i])
  /\ pc' = "threw"
  /\ UNCHANGED <<fn, args, ret, results>>

\* Promise.all has resolved: rank by path length and return
GeometryRank ==
  /\ fn = "geometry.compare_geometries"
  /\ pc = "running"
  /\ \A k \in 1..Len(results) : results[k] # Pending
  /\ LET ranked == SortByMetric(WithoutError(results), "path_length_mm")
     IN  ret' = [geometries |-> results,
                 ranking |-> [k \in 1..Len(ranked) |-> ranked[k].id],
                 recommendation |->
                   IF Len(ranked) > 0 THEN ranked[1].id ELSE "null"]
  /\ pc' = "returned"
  /\ UNCHANGED <<fn, args, results>>

NextGeometryCompare ==
  \/ \E i \in 1..Len(results) : GeometryResolve(i)
  \/ \E i \in 1..Len(results) : GeometryReject(i)
  \/ GeometryRank

SpecGeometryCompare == InitGeometryCompare /\ [][NextGeometryCompare]_vars

\* C10: a candidate whose profile file is missing, unreadable or not
\* parseable never makes the whole call fail; when the call returns, the
\* candidate is listed in 'geometries' with an error description and is
\* not in 'ranking'.
C10_BadCandidateNeverAborts ==
  fn = "geometry.compare_geometries" =>
    /\ pc # "threw"
    /\ pc = "returned" =>
         \A k \in 1..Len(args.geometry_ids) :
           GeometryArtifacts[args.geometry_ids[k]].kind # "json" =>
             /\ ret.geometries[k].id = args.geometry_ids[k]
             /\ "error" \in DOMAIN ret.geometries[k]
             /\ Count(ret.ranking, args.geometry_ids[k]) = 0

(***************************************************************************)
(* Geometry server: analyze_fractal                                        *)
(***************************************************************************)
\* Number(x.toFixed(digits)) of a fixed-point number: x rounded to a
\* multiple of 10^-digits, half away from zero; NaN stays NaN
ToFixed(x, digits) ==
  LET q == Scale \div (10 ^ digits)
  IN  IF x = NaN THEN NaN
      ELSE IF x >= 0 THEN Div(x + q \div 2, q) * q
      ELSE -(Div(-x + q \div 2, q) * q)

\* a profile from its z and radius values given in 1/10 mm
Samples(zs, rs) ==
  [k \in 1..Len(zs) |-> [z |-> zs[k] * Div(Scale, 10),
                         radius |-> rs[k] * Div(Scale, 10)]]

\* The profile files next to the meshes analyze_fractal may be given: no
\* file, a file that is no JSON, and profiles of 0, 1, 2, 3, 5, 11 and 12
\* samples (a cone, a cylinder, two rippled horns, profiles whose z values
\* are all equal).
FractalFiles ==
  [absent  |-> [kind |-> "absent"],
   text    |-> [kind |-> "text"],
   empty   |-> [kind |-> "json", profile |-> <<>>],
   single  |-> [kind |-> "json", profile |-> Samples(<<0>>, <<10>>)],
   pair    |-> [kind |-> "json", profile |-> Samples(<<0, 10>>, <<10, 30>>)],
   column3 |-> [kind |-> "json",
                profile |-> Samples(<<5, 5, 5>>, <<10, 20, 30>>)],
   short5  |-> [kind |-> "json",
                profile |-> Samples(<<0, 10, 20, 30, 40>>,
                                    <<10, 11, 15, 16, 24>>)],
   cone11  |-> [kind |-> "json",
                profile |-> Samples(<<0, 10, 20, 30, 40, 50, 60, 70, 80, 90, 100>>,
                                    <<10, 12, 14, 16, 18, 20, 22, 24, 26, 28, 30>>)],
   flat11  |-> [kind |-> "json",
                profile |-> Samples(<<0, 10, 20, 30, 40, 50, 60, 70, 80, 90, 100>>,
                                    <<20, 20, 20, 20, 20, 20, 20, 20, 20, 20, 20>>)],
   rippled11 |-> [kind |-> "json",
                profile |-> Samples(<<0, 10, 20, 30, 40, 50, 60, 70, 80, 90, 100>>,
                                    <<10, 12, 15, 17, 20, 22, 25, 27, 30, 32, 35>>)],
   stepped11 |-> [kind |-> "json",
                profile |-> Samples(<<0, 10, 20, 30, 40, 50, 60, 70, 80, 90, 100>>,
                                    <<10, 10, 10, 10, 10, 40, 40, 40, 40, 40, 40>>)],
   stacked12 |-> [kind |-> "json",
                profile |-> Samples(<<0, 0, 0, 0, 0, 0, 0, 0, 0, 0, 0, 0>>,
                                    <<10, 12, 14, 16, 18, 20, 22, 24, 26, 28, 30, 32>>)]]

MeshPaths == DOMAIN FractalFiles

\* the profile analyze_fractal works on: the parsed file, or [] when
\* readFile or JSON.parse threw
LoadedProfile(mesh_path) ==
  IF FractalFiles[mesh_path].kind = "json"
  THEN FractalFiles[mesh_path].profile
  ELSE <<>>

\* variant that keeps the segments with dz = 0 too (dr / 0 is no number)
RECURSIVE DerivativesOfAllSegments(_, _)
DerivativesOfAllSegments(profile, i) ==
  IF i > Len(profile) THEN <<>>
  ELSE LET dr == profile[i].radius - profile[i - 1].radius
           dz == profile[i].z - profile[i - 1].z
       IN  (IF dz > 0 THEN <<Abs(Div(dr * Scale, dz))>>
            ELSE IF dz = 0 THEN <<NaN>> ELSE <<>>)
             \o DerivativesOfAllSegments(profile, i + 1)

\* the loop that fills 'derivatives': |dr / dz| of the segments i, i+1, ...
\* with dz > 0
RECURSIVE Derivatives(_, _)
Derivatives(profile, i) ==
  IF i > Len(profile) THEN <<>>
  ELSE LET dr == profile[i].radius - profile[i - 1].radius
           dz == profile[i].z - profile[i - 1].z
       IN  (IF dz > 0 THEN <<Abs(Div(dr * Scale, dz))>> ELSE <<>>)
             \o Derivatives(profile, i + 1)

\* mean, std and cv = std / mean of a non-empty array of slopes
SlopeStatistics(derivatives) ==
  LET n == Len(derivatives)
      total == SumOrNaN(derivatives)
      mean == IF total = NaN THEN NaN ELSE Div(total, n)
      \* Math.sqrt(variance), the squares kept at full resolution
      std == IF mean = NaN THEN NaN
             ELSE ISqrt(Div(Sum([k \in 1..n |->
                    (derivatives[k] - mean) * (derivatives[k] - mean)]), n))
      cv == IF std = NaN \/ mean = 0 THEN NaN ELSE Div(std * Scale, mean)
  IN  [mean |-> mean, std |-> std, cv |-> cv]

\* the defaults globalDimension = 1.5 and dimensionVariance = 0.1
DefaultDimension == Div(15 * Scale, 10)

DefaultVariance == Div(Scale, 10)

\* profile.length must exceed this for the slopes to be used
MinProfileLength == 10

\* globalDimension and dimensionVariance as analyze_fractal computes them
FractalDimension(profile) ==
  IF Len(profile) > MinProfileLength /\ Len(Derivatives(profile, 2)) > 0
  THEN LET stats == SlopeStatistics(Derivatives(profile, 2))
       IN  [globalDimension |->
              IF stats.cv = NaN THEN NaN
              ELSE Scale + Min(Scale, stats.cv * 2),
            dimensionVariance |->
              IF stats.std = NaN THEN NaN ELSE Div(stats.std, 2)]
  ELSE [globalDimension |-> DefaultDimension,
        dimensionVariance |-> DefaultVariance]

\* the surface loop from segment i on: lateral area (mm^2) and volume
\* (mm^3) of the frustums, as fixed-point numbers
RECURSIVE SurfaceMetrics(_, _)
SurfaceMetrics(profile, i) ==
  IF i > Len(profile) THEN [totalArea |-> 0, volume |-> 0]
  ELSE LET r1 == profile[i - 1].radius
           r2 == profile[i].radius
           dz == profile[i].z - profile[i - 1].z
           slant == Sqrt(Mul(dz, dz) + Mul(r2 - r1, r2 - r1))
           rest == SurfaceMetrics(profile, i + 1)
       IN  [totalArea |-> Mul(Mul(Pi, r1 + r2), slant) + rest.totalArea,
            volume |-> Mul(Div(Mul(Pi, dz), 3),
                           Mul(r1, r1) + Mul(r1, r2) + Mul(r2, r2))
                         + rest.volume]

\* Math.round of a fixed-point number, as an integer; NaN stays NaN
Round(x) == IF x = NaN THEN NaN ELSE (x + Div(Scale, 2)) \div Scale

\* the values Math.random() is drawn from: 0 <= random < 1
RandomDraws == {0, Div(Scale, 2), Scale - 1}

\* The analysis analyze_fractal returns for a mesh; random1 and random2 are
\* what its two calls of Math.random() return, in the order of the calls.
Analysis(mesh_path, random1, random2) ==
  LET profile == LoadedProfile(mesh_path)
      dimension == FractalDimension(profile)
      globalDimension == dimension.globalDimension
      dimensionVariance == dimension.dimensionVariance
      surface == SurfaceMetrics(profile, 2)
      smoothArea == Div(surface.totalArea * 3, 4)
      fractalContribution ==
        IF smoothArea = 0 THEN NaN
        ELSE Div((surface.totalArea - smoothArea) * Scale, smoothArea)
      inOptimalRange ==
        /\ globalDimension # NaN
        /\ globalDimension >= Div(15 * Scale, 10)
        /\ globalDimension <= Div(17 * Scale, 10)
      expectedSmoothness ==
        IF inOptimalRange THEN Div(9 * Scale, 10) + Div(random1 * 5, 100)
        ELSE Div(75 * Scale, 100) + Div(random1, 10)
  IN  [mesh_path |-> mesh_path,
       fractal_analysis |->
         [global_dimension |-> ToFixed(globalDimension, 3),
          dimension_variance |-> ToFixed(dimensionVariance, 3),
          min_local_dimension |->
            IF globalDimension = NaN \/ dimensionVariance = NaN THEN NaN
            ELSE ToFixed(globalDimension - dimensionVariance * 2, 3),
          max_local_dimension |->
            IF globalDimension = NaN \/ dimensionVariance = NaN THEN NaN
            ELSE ToFixed(globalDimension + dimensionVariance * 2, 3),
          optimal_region_percentage |->
            IF inOptimalRange THEN 75 * Scale + random2 * 20
            ELSE 40 * Scale + random2 * 30,
          interpretation |->
            IF inOptimalRange THEN "optimal range"
            ELSE IF globalDimension # NaN
                    /\ globalDimension < Div(15 * Scale, 10)
                 THEN "low fractal dimension"
                 ELSE "high fractal dimension"],
       surface_analysis |->
         [total_area_mm2 |-> ToFixed(surface.totalArea, 2),
          smooth_equivalent_area_mm2 |-> ToFixed(smoothArea, 2),
          fractal_contribution |-> ToFixed(fractalContribution, 3),
          volume_mm3 |-> ToFixed(surface.volume, 2)],
       acoustic_prediction |->
         [expected_impedance_smoothness |-> ToFixed(expectedSmoothness, 3),
          frequency_range_effective |->
            [min_hz |-> IF globalDimension = NaN THEN NaN
                        ELSE Round(800 * Scale - globalDimension * 100),
             max_hz |-> IF globalDimension = NaN THEN NaN
                        ELSE Round(18000 * Scale + globalDimension * 1000)],
          reflection_coefficient_estimate |->
            ToFixed(Div(15 * Scale, 100) - Div(expectedSmoothness * 8, 100), 3),
          recommendation |->
            IF expectedSmoothness > Div(85 * Scale, 100)
            THEN "suitable for simulation"
            ELSE "adjust fractal parameters"]]

\* most invocations of analyze_fractal on one mesh
MaxInvocations == 2

InitAnalyze ==
  /\ fn = "analyze_fractal"
  /\ args \in [mesh_path : MeshPaths]
  /\ pc = "running"
  /\ ret = Pending
  /\ results = <<>>

\* One invocation of the handler.  It has no error path: it returns the
\* analysis as a normal response (isError is not set).  results keeps the
\* responses of the successive invocations on the same mesh.
analyze_fractal ==
  /\ fn = "analyze_fractal"
  /\ Len(results) < MaxInvocations
  /\ \E random1, random2 \in RandomDraws :
       /\ ret' = [isError |-> FALSE,
                  analysis |-> Analysis(args.mesh_path, random1, random2)]
       /\ results' = Append(results, ret')
  /\ pc' = "returned"
  /\ UNCHANGED <<fn, args>>

NextAnalyze == analyze_fractal

SpecAnalyze == InitAnalyze /\ [][NextAnalyze]_vars

AnalyzeReturned == fn = "analyze_fractal" /\ pc = "returned"

\* the number of segments of a profile with dz > 0
ValidSegments(profile) ==
  Cardinality({i \in 2..Len(profile) : profile[i].z - profile[i - 1].z > 0})

\* C12: for every profile with at least 2 segments with dz > 0 (constant
\* radius included) the reported global_dimension is a number in [1.0, 2.0].
C12_GlobalDimensionBounded ==
  (AnalyzeReturned /\ ValidSegments(LoadedProfile(args.mesh_path)) >= 2) =>
    /\ ret.analysis.fractal_analysis.global_dimension # NaN
    /\ ret.analysis.fractal_analysis.global_dimension >= Scale
    /\ ret.analysis.fractal_analysis.global_dimension <= 2 * Scale

\* C13: for every profile with at least 2 samples and at least one segment
\* with dz > 0, global_dimension is 1.0 + min(1.0, 2 * std / mean) and
\* dimension_variance is 0.5 * std of the slope magnitudes (not the fixed
\* defaults).
C13_DimensionFromSlopeStatistics ==
  (/\ AnalyzeReturned
   /\ Len(LoadedProfile(args.mesh_path)) >= 2
   /\ ValidSegments(LoadedProfile(args.mesh_path)) >= 1) =>
    LET stats == SlopeStatistics(Derivatives(LoadedProfile(args.mesh_path), 2))
    IN  /\ ret.analysis.fractal_analysis.global_dimension
             = (IF stats.cv = NaN THEN NaN
                ELSE Scale + Min(Scale, 2 * stats.cv))
        /\ ret.analysis.fractal_analysis.dimension_variance
             = Div(stats.std, 2)

\* C14: given a profile with zero samples or one sample (a missing or
\* unparseable profile file included), analyze_fractal reports an error
\* for the operation and returns no fractal metrics.
C14_MalformedProfileReported ==
  (AnalyzeReturned /\ Len(LoadedProfile(args.mesh_path)) <= 1) =>
    /\ ret.isError
    /\ "analysis" \notin DOMAIN ret

\* C15: given a profile of 2 or more samples whose z values are all equal,
\* analyze_fractal does not fail and returns global_dimension = 1.5 and
\* dimension_variance = 0.1.
C15_DegenerateProfileFallsBack ==
  fn = "analyze_fractal" =>
    /\ pc # "threw"
    /\ (/\ pc = "returned"
        /\ Len(LoadedProfile(args.mesh_path)) >= 2
        /\ \A k \in 1..Len(LoadedProfile(args.mesh_path)) :
             LoadedProfile(args.mesh_path)[k].z
               = LoadedProfile(args.mesh_path)[1].z) =>
         /\ ~ret.isError
         /\ ret.analysis.fractal_analysis.global_dimension
              = Div(15 * Scale, 10)
         /\ ret.analysis.fractal_analysis.dimension_variance
              = Div(Scale, 10)

\* a profile of more than 10 samples, all at the same z, was analysed
C15_Witness ==
  /\ AnalyzeReturned
  /\ Len(LoadedProfile(args.mesh_path)) > MinProfileLength
  /\ ValidSegments(LoadedProfile(args.mesh_path)) = 0
  /\ ret.analysis.surface_analysis.total_area_mm2 > 0

\* C16: two invocations of analyze_fractal on the same profile return
\* identical results in every output field.
C16_AnalysisIsPure ==
  fn = "analyze_fractal" =>
    \A i, j \in 1..Len(results) : results[i] = results[j]

(***************************************************************************)
(* Acoustics server: generateFrequencies                                   *)
(***************************************************************************)
\* freq_points: z.number().min(10).max(500)
MinFreqPoints == 10

MaxFreqPoints == 500

\* sweep bounds drawn, in 1/10 Hz: 0.1, 0.3, 1, 200, 500 and 20000 Hz
SweepBounds == {1, 3, 10, 2000, 5000, 200000}

\* point counts drawn
SweepPoints == {MinFreqPoints, 50, 100}

\* The calls of generateFrequencies: any two positive bounds (the function
\* checks nothing), descending ones down to a ratio fMax / fMin of 1/40.
SweepCalls ==
  {c \in [fMin : SweepBounds, fMax : SweepBounds, points : SweepPoints] :
     c.fMin <= 40 * c.fMax}

InitFrequencies ==
  /\ fn = "generateFrequencies"
  /\ args \in SweepCalls
  /\ pc = "running"
  /\ ret = Pending
  /\ results = <<>>

FrequenciesCall ==
  /\ fn = "generateFrequencies"
  /\ pc = "running"
  /\ ret' = generateFrequencies(args.fMin, args.fMax, args.points)
  /\ pc' = "returned"
  /\ UNCHANGED <<fn, args, results>>

NextFrequencies == FrequenciesCall

SpecFrequencies == InitFrequencies /\ [][NextFrequencies]_vars

FrequenciesReturned == fn = "generateFrequencies" /\ pc = "returned"

\* C18: for every accepted parameter choice (0 < freq_min < freq_max,
\* 10 <= points <= 500) generateFrequencies returns exactly 'points'
\* frequencies, all strictly positive and strictly ascending.
C18_SweepPositiveAscending ==
  (/\ FrequenciesReturned
   /\ 0 < args.fMin
   /\ args.fMin < args.fMax
   /\ args.points >= MinFreqPoints
   /\ args.points <= MaxFreqPoints) =>
    /\ Len(ret) = args.points
    /\ \A k \in 1..Len(ret) : ret[k] > 0
    /\ \A k \in 1..(Len(ret) - 1) : ret[k] < ret[k + 1]

\* C19 as claimed: f_0 = fMin, f_{n-1} = fMax and every f_i is exactly
\* fMin * (fMax / fMin)^(i / (n - 1)).
C19_ExactLogSpacing ==
  FrequenciesReturned =>
    /\ ret[1] = args.fMin
    /\ ret[args.points] = args.fMax
    /\ \A k \in 1..args.points :
         ret[k] * Scale
           = LogInterpolation(args.fMin, args.fMax, args.points, k)

\* C19 as amended: every f_i is fMin * (fMax / fMin)^(i / (n - 1)) to the
\* nearest 1/10 Hz (at most half a step of 1/10 Hz away from it, half a step
\* above it at most exclusively), so that f_0 = fMin and f_{n-1} = fMax for
\* bounds that are multiples of 1/10 Hz.
C19_LogSpacingRoundedToTenthHz ==
  FrequenciesReturned =>
    /\ Len(ret) = args.points
    /\ ret[1] = args.fMin
    /\ ret[args.points] = args.fMax
    /\ \A k \in 1..args.points :
         LET f == LogInterpolation(args.fMin, args.fMax, args.points, k)
         IN  /\ 2 * (ret[k] * Scale - f) <= Scale
             /\ 2 * (f - ret[k] * Scale) < Scale

\* an ascending sweep with one point rounded up to the 1/10 Hz grid and
\* another rounded down
C19_Witness ==
  /\ FrequenciesReturned
  /\ args.fMin < args.fMax
  /\ ret[1] = args.fMin
  /\ ret[args.points] = args.fMax
  /\ \E k \in 2..(args.points - 1) :
       ret[k] * Scale > LogInterpolation(args.fMin, args.fMax, args.points, k)
  /\ \E k \in 2..(args.points - 1) :
       ret[k] * Scale < LogInterpolation(args.fMin, args.fMax, args.points, k)

(***************************************************************************)
(* Acoustics server: frequency_response and run_simulation                 *)
(***************************************************************************)
\* a * b / c for a, b >= 0 and c > 0 without leaving the integer range
MulDiv(a, b, c) == (a \div c) * b + ((a % c) * b) \div c

\* Math.log(10) as a fixed-point number
Ln10 == Div(23026 * Scale, 10 ^ 4)

\* dB @ 1W/1m reference
BaseSensitivity == 107

\* ka = 2 * pi * freq * mouthRadius / C_AIR as a fixed-point number, freq in
\* 1/10 Hz and the radius in 1/Scale mm
MouthKa(freq, mouthRadius) ==
  Div(MulDiv(freq * Div(mouthRadius, Div(Scale, 10)), TwoPi, C_AIR * 100),
      Scale)

\* the radiation efficiency at freq, in 1/Scale^2; fc is NaN when the flare
\* constant is no number (freq < NaN is false)
Efficiency(freq, fc, ka) ==
  IF fc # NaN /\ freq < fc
  THEN LET q == Div(freq * Scale, fc) IN Div(q * q, 10)
  ELSE IF ka < 2 * Scale
  THEN Div(Scale * Scale, 4) + Div(3 * Scale * Div(ka, 2), 4)
  ELSE Scale * Scale

\* one iteration of the SPL loop: Math.round(level * 10) / 10 in 1/10 dB,
\* for the reflection coefficient of the sweep point
SoundLevel(freq, fc, mouthRadius, reflection) ==
  IF reflection = NaN THEN NaN
  ELSE LET matching == Scale - Mul(reflection, reflection)
           product == Efficiency(freq, fc, MouthKa(freq, mouthRadius))
                        * matching
           \* Math.max(efficiency * matching, 0.001), in 1/Scale^3
           floored == IF product > Scale * Scale THEN product
                      ELSE Scale * Scale
           \* Math.log of it
           ln == Ln(floored) - Ln(Scale * Scale * Scale)
           level == BaseSensitivity * Scale + Div(10 * ln * Scale, Ln10)
       IN  (level + Div(Scale, 20)) \div Div(Scale, 10)

\* seq.slice(from, to) with 0-based indices from (inclusive), to (exclusive)
Slice(seq, from, to) == [k \in 1..(to - from) |-> seq[from + k]]

\* spl[i] > avgLevel - 3 with avgLevel the mean of passbandSPL, levels in
\* 1/10 dB; false when either side is NaN
InPassband(level, passbandSPL) ==
  /\ level # NaN
  /\ SumOrNaN(passbandSPL) # NaN
  /\ level * Len(passbandSPL) > Sum(passbandSPL) - 30 * Len(passbandSPL)

\* the upward scan: the first index i, i + 1, ... whose level is in the
\* passband, 0 if there is none
RECURSIVE LowScan(_, _, _)
LowScan(spl, passbandSPL, i) ==
  IF i > Len(spl) THEN 0
  ELSE IF InPassband(spl[i], passbandSPL) THEN i
  ELSE LowScan(spl, passbandSPL, i + 1)

\* the downward scan: the last index i, i - 1, ... whose level is in the
\* passband, 0 if there is none
RECURSIVE HighScan(_, _, _)
HighScan(spl, passbandSPL, i) ==
  IF i < 1 THEN 0
  ELSE IF InPassband(spl[i], passbandSPL) THEN i
  ELSE HighScan(spl, passbandSPL, i - 1)

\* Math.round of a frequency in 1/10 Hz, in Hz
RoundHz(f) == IF f = NaN THEN NaN ELSE (f + 5) \div 10

RECURSIVE MaxOf(_)
MaxOf(seq) ==
  IF Len(seq) = 1 THEN seq[1]
  ELSE LET m == MaxOf(Tail(seq)) IN IF seq[1] > m THEN seq[1] ELSE m

RECURSIVE MinOf(_)
MinOf(seq) ==
  IF Len(seq) = 1 THEN seq[1]
  ELSE LET m == MinOf(Tail(seq)) IN IF seq[1] < m THEN seq[1] ELSE m

\* the result frequency_response builds from the sweep and its SPL curve
ResponseResult(profile_path, fc, freq_min_hz, freq_max_hz, frequencies, spl) ==
  LET n == Len(spl)
      passbandSPL == Slice(spl, n \div 4, (n * 3) \div 4)
      total == SumOrNaN(passbandSPL)
      low == LowScan(spl, passbandSPL, 1)
      high == HighScan(spl, passbandSPL, n)
      lowCutoff == IF low = 0 THEN freq_min_hz ELSE frequencies[low]
      highCutoff == IF high = 0 THEN freq_max_hz ELSE frequencies[high]
  IN  [isError |-> FALSE,
       profile_path |-> profile_path,
       cutoff_frequency_hz |-> RoundHz(fc),
       passband_hz |-> [low |-> RoundHz(lowCutoff),
                        high |-> RoundHz(highCutoff)],
       sensitivity_db |->
         IF total = NaN THEN NaN
         ELSE (2 * total + Len(passbandSPL)) \div (2 * Len(passbandSPL)),
       flatness_db |->
         IF total = NaN THEN NaN ELSE MaxOf(passbandSPL) - MinOf(passbandSPL),
       data |-> [frequencies_hz |-> frequencies, spl_db |-> spl]]

\* the sweep length of frequency_response
ResponsePoints == 100

\* the response to an exception caught by a handler
ErrorResponse(message) ==
  [isError |-> TRUE, error |-> TRUE, message |-> message]

\* the SPL curve of frequency_response: one level per sweep frequency
SoundLevels(profile, fc, frequencies, impedance) ==
  [i \in 1..Len(frequencies) |->
     SoundLevel(frequencies[i], fc, profile[Len(profile)].radius,
                impedance.reflection_coefficient[i])]

\* the body of the try block of frequency_response once the profile is parsed
ResponseOfProfile(profile_path, profile, freq_min_hz, freq_max_hz) ==
  LET fc == IF Degenerate(profile) THEN NaN ELSE CutoffFrequency(profile)
  IN  CHOOSE response \in
        UNION {{ResponseResult(profile_path, fc, freq_min_hz, freq_max_hz,
                               frequencies, spl) :
                  spl \in {SoundLevels(profile, fc, frequencies,
                             computeImpedanceInline(profile, frequencies))}} :
               frequencies \in
                 {generateFrequencies(freq_min_hz, freq_max_hz,
                                      ResponsePoints)}} : TRUE

\* what frequency_response returns
FrequencyResponse(profile_path, freq_min_hz, freq_max_hz) ==
  LET file == FileContent[profile_path]
  IN  IF file.kind = "absent"
      THEN ErrorResponse("ENOENT: no such file or directory")
      ELSE IF file.kind = "text"
      THEN ErrorResponse("Unexpected token in JSON")
      ELSE IF Len(file.profile) = 0
      THEN ErrorResponse("Cannot read properties of undefined")
      ELSE ResponseOfProfile(profile_path, file.profile,
                             freq_min_hz, freq_max_hz)

\* the result of the inline fallback of run_simulation once the profile is
\* parsed and the impedance computed over the sweep
InlineResult(profile_path, profile, impedance) ==
  LET n == Len(impedance.impedance_magnitude)
      total == SumOrNaN(impedance.impedance_magnitude)
      meanImpedance == IF total = NaN THEN NaN ELSE Div(total, n)
      reflSum == SumOrNaN(impedance.reflection_coefficient)
      avgReflection == IF reflSum = NaN THEN NaN ELSE Div(reflSum, n)
      std == IF meanImpedance = NaN THEN NaN
             ELSE ISqrt(Div(Sum([k \in 1..n |->
                    (impedance.impedance_magnitude[k] - meanImpedance)
                      * (impedance.impedance_magnitude[k] - meanImpedance)]),
                    n))
      smoothness == IF meanImpedance = NaN \/ meanImpedance = 0 THEN NaN
                    ELSE IF Scale - Div(std * Scale, meanImpedance) > 0
                         THEN Scale - Div(std * Scale, meanImpedance)
                         ELSE 0
  IN  [isError |-> FALSE,
       profile_path |-> profile_path,
       simulation_method |-> "inline_tmm",
       geometry |-> [throat_diameter_mm |-> profile[1].radius * 2,
                     mouth_diameter_mm |-> profile[Len(profile)].radius * 2,
                     length_mm |-> profile[Len(profile)].z],
       impedance |-> [mean_magnitude_ohms |-> meanImpedance,
                      reflection_coefficient_avg |-> avgReflection,
                      data |-> impedance],
       score |-> [impedance_smoothness |-> smoothness,
                  overall |-> IF smoothness = NaN THEN NaN
                              ELSE Div(smoothness * 9, 10),
                  recommendation |->
                    IF smoothness # NaN /\ smoothness > Div(85 * Scale, 100)
                    THEN "Geometry suitable for fabrication"
                    ELSE "Consider optimization"]]

\* the inline fallback of run_simulation: the catch (pyError) block
InlineFallback(profile_path, freq_min_hz, freq_max_hz, freq_points) ==
  LET file == FileContent[profile_path]
  IN  IF file.kind = "absent"
      THEN ErrorResponse("Simulation failed: ENOENT")
      ELSE IF file.kind = "text"
      THEN ErrorResponse("Simulation failed: Unexpected token in JSON")
      ELSE IF Len(file.profile) = 0
      THEN ErrorResponse("Simulation failed: Cannot read properties of undefined")
      ELSE
        CHOOSE result \in
          {InlineResult(profile_path, file.profile, impedance) :
             impedance \in
               {computeImpedanceInline(file.profile, frequencies) :
                  frequencies \in
                    {generateFrequencies(freq_min_hz, freq_max_hz,
                                         freq_points)}}} : TRUE

\* what the python3 process of runAcousticSim can do: exit with code 0 and
\* print JSON (resolve), or anything else (reject)
PythonOutcomes == {"resolve", "reject"}

\* fs.mkdir of ensureArtifactsDir and fs.writeFile of the result
FsOutcomes == {"ok", "fails"}

\* the frequency bounds the sweep tools are called with, in 1/10 Hz:
\* 400, 500, 900 and 20000 Hz
ToolBounds == {4000, 5000, 9000, 200000}

InitSweepTools ==
  /\ fn \in {"run_simulation", "frequency_response"}
  /\ args \in [profile_path : Paths, freq_min_hz : ToolBounds,
               freq_max_hz : ToolBounds, freq_points : {MinFreqPoints}]
  /\ pc = "running"
  /\ ret = Pending
  /\ results = <<>>

\* The run_simulation handler.  ensureArtifactsDir is awaited outside the
\* try block; the result of the Python simulation is returned when the
\* process resolves and the result file is written; every failure inside
\* the try block leads to the inline fallback.  results keeps the outcome
\* of each call to the environment the handler made, in order.
run_simulation ==
  /\ fn = "run_simulation"
  /\ pc = "running"
  /\ \E mkdir \in FsOutcomes, python \in PythonOutcomes,
        writeFile \in FsOutcomes :
       IF mkdir = "fails"
       THEN /\ pc' = "threw"
            /\ ret' = [threw |-> "mkdir"]
            /\ results' = <<[call |-> "mkdir", outcome |-> mkdir]>>
       ELSE /\ pc' = "returned"
            /\ ret' = IF python = "resolve" /\ writeFile = "ok"
                      THEN [isError |-> FALSE,
                            simulation_method |-> "python",
                            profile_path |-> args.profile_path]
                      ELSE InlineFallback(args.profile_path,
                             args.freq_min_hz, args.freq_max_hz,
                             args.freq_points)
            /\ results' =
                 <<[call |-> "mkdir", outcome |-> mkdir],
                   [call |-> "runAcousticSim", outcome |-> python]>>
                 \o (IF python = "resolve"
                     THEN <<[call |-> "writeFile", outcome |-> writeFile]>>
                     ELSE <<>>)
  /\ UNCHANGED <<fn, args>>

\* The frequency_response handler.
frequency_response ==
  /\ fn = "frequency_response"
  /\ pc = "running"
  /\ ret' = FrequencyResponse(args.profile_path, args.freq_min_hz,
                              args.freq_max_hz)
  /\ pc' = "returned"
  /\ UNCHANGED <<fn, args, results>>

NextSweepTools == run_simulation \/ frequency_response

SpecSweepTools == InitSweepTools /\ [][NextSweepTools]_vars

SweepToolReturned ==
  fn \in {"run_simulation", "frequency_response"} /\ pc = "returned"

\* C17: run_simulation and frequency_response reject, with an invalid-input
\* error and before any computation, every request whose frequency bounds
\* are inverted or equal (freq_min_hz >= freq_max_hz): no such request
\* returns a normal response.
C17_InvertedBoundsRejected ==
  (SweepToolReturned /\ args.freq_min_hz >= args.freq_max_hz)
    => ret.isError

\* C20: in frequency_response the reported passband is contiguous: every
\* sweep frequency between the reported low and high passband frequencies
\* has an SPL above avgLevel - 3, avgLevel being the mean of the middle half
\* of the SPL curve.
C20_PassbandContiguous ==
  (fn = "frequency_response" /\ pc = "returned" /\ ~ret.isError) =>
    LET spl == ret.data.spl_db
        n == Len(spl)
    IN  \A i \in 1..n :
          (/\ ret.passband_hz.low <= RoundHz(ret.data.frequencies_hz[i])
           /\ RoundHz(ret.data.frequencies_hz[i]) <= ret.passband_hz.high)
            => InPassband(spl[i], Slice(spl, n \div 4, (n * 3) \div 4))

\* the handler of run_simulation has returned a response
SimulationReturned == fn = "run_simulation" /\ pc = "returned"

\* the response is the work of the catch (pyError) block
InlineEntered ==
  SimulationReturned /\ (ret.isError \/ ret.simulation_method = "inline_tmm")

\* C23: when the mean impedance magnitude is zero the smoothness
\* max(0, 1 - std / mean) of run_simulation is a defined value in [0, 1].
C23_SmoothnessGuarded ==
  (SimulationReturned /\ ~ret.isError /\ ret.simulation_method = "inline_tmm"
     /\ ret.impedance.mean_magnitude_ohms = 0)
    => (/\ ret.score.impedance_smoothness # NaN
        /\ ret.score.impedance_smoothness >= 0
        /\ ret.score.impedance_smoothness <= Scale)

\* C24: the inline fallback of run_simulation is entered only when the
\* Python simulation itself failed: a response made by the fallback implies
\* that runAcousticSim rejected.
C24_FallbackOnlyAfterPythonFailure ==
  InlineEntered =>
    \E k \in 1..Len(results) :
      results[k] = [call |-> "runAcousticSim", outcome |-> "reject"]

\* C27: run_simulation always completes with a response object; no failure
\* of the artifacts directory, the Python process, the result file or the
\* profile makes the handler throw.
C27_SimulationNeverThrows ==
  fn = "run_simulation" => pc # "threw"

\* the levels of the response are all finite
FiniteCurve(spl) == \A i \in 1..Len(spl) : spl[i] # NaN

\* C30: in frequency_response, for every SPL curve of finite values, both
\* passband scans find an index above avgLevel - 3, so the reported low and
\* high are (rounded) frequencies of the sweep and low <= high.
C30_PassbandFoundAndOrdered ==
  (fn = "frequency_response" /\ pc = "returned" /\ ~ret.isError
     /\ FiniteCurve(ret.data.spl_db)) =>
    LET spl == ret.data.spl_db
        n == Len(spl)
        passbandSPL == Slice(spl, n \div 4, (n * 3) \div 4)
        low == LowScan(spl, passbandSPL, 1)
        high == HighScan(spl, passbandSPL, n)
    IN  /\ low # 0
        /\ high # 0
        /\ ret.passband_hz.low = RoundHz(ret.data.frequencies_hz[low])
        /\ ret.passband_hz.high = RoundHz(ret.data.frequencies_hz[high])
        /\ ret.passband_hz.low <= ret.passband_hz.high

(***************************************************************************)
(* Geometry server (FreeCAD): runHornGenerator                             *)
(***************************************************************************)
\* The promise of runHornGenerator: pc is "running" while it is pending,
\* "returned" once resolved and "threw" once rejected; ret is its value.
\* results holds the closure state: cmdIndex and the processes spawned so
\* far, in spawn order.  A process is "spawned" until it emits an event,
\* "errored" after 'error' (it did not start), "failed" after the 'close'
\* that follows 'error', and "exited" after the 'close' of a process that
\* ran.
tryCommands == <<"freecadcmd", "python3", "python">>

\* the generator arguments drawn
GeneratorArgs ==
  {<<"--type", "hilbert">>, <<"--type", "peano">>, <<"--type", "mandelbrot">>}

\* fullArgs of command cmd
FullArgs(cmd, hornArgs) ==
  IF cmd = "freecadcmd"
  THEN <<"generate_horn.py", "--">> \o hornArgs \o <<"--json">>
  ELSE <<"generate_horn.py">> \o hornArgs \o <<"--json">>

\* spawn(cmd, fullArgs, ...)
Spawned(cmd, hornArgs) ==
  [cmd |-> cmd, fullArgs |-> FullArgs(cmd, hornArgs), state |-> "spawned"]

\* what 'close' reports of a process that ran: code 0 with JSON on stdout,
\* code 0 with other output, a non-zero code, or null (ended by a signal)
ExitCodes == {"zero_json", "zero_text", "nonzero", "null"}

\* reject(...) and resolve(...) settle the promise once: on a settled
\* promise they do nothing
Settle(outcome, value) ==
  IF pc = "running"
  THEN pc' = outcome /\ ret' = value
  ELSE UNCHANGED <<pc, ret>>

\* tryNextCommand() entered with closure state 'state'
tryNextCommand(state) ==
  IF state.cmdIndex >= Len(tryCommands)
  THEN /\ Settle("threw", [rejected |-> "No Python interpreter found"])
       /\ results' = state
  ELSE /\ results' =
            [state EXCEPT !.procs =
               Append(@, Spawned(tryCommands[state.cmdIndex + 1], args))]
       /\ UNCHANGED <<pc, ret>>

\* the state after new Promise(...) ran its executor: cmdIndex is 0 and
\* tryNextCommand() has spawned freecadcmd
InitHorn ==
  /\ fn = "runHornGenerator"
  /\ args \in GeneratorArgs
  /\ pc = "running"
  /\ ret = Pending
  /\ results = [cmdIndex |-> 0,
                procs |-> <<Spawned(tryCommands[1], args)>>]

\* proc.on("error"): process k could not be started
HornError(k) ==
  /\ fn = "runHornGenerator"
  /\ results.procs[k].state = "spawned"
  /\ tryNextCommand([cmdIndex |-> results.cmdIndex + 1,
                     procs |-> [results.procs EXCEPT ![k].state = "errored"]])
  /\ UNCHANGED <<fn, args>>

\* proc.on("close") of a process that ran
HornClose(k) ==
  /\ fn = "runHornGenerator"
  /\ results.procs[k].state = "spawned"
  /\ \E code \in ExitCodes :
       LET procs == [results.procs EXCEPT ![k].state = "exited"]
       IN  IF code = "zero_json"
           THEN /\ Settle("returned", [resolved |-> "json"])
                /\ results' = [results EXCEPT !.procs = procs]
           ELSE IF code = "zero_text"
           THEN /\ Settle("threw",
                          [rejected |-> "Failed to parse generator output"])
                /\ results' = [results EXCEPT !.procs = procs]
           ELSE IF code = "null"
           THEN tryNextCommand([cmdIndex |-> results.cmdIndex + 1,
                                procs |-> procs])
           ELSE /\ Settle("threw", [rejected |-> "Generator failed"])
                /\ results' = [results EXCEPT !.procs = procs]
  /\ UNCHANGED <<fn, args>>

\* proc.on("close") of a process that could not be started: the event
\* follows 'error' and carries the negative error number as code
HornCloseAfterError(k) ==
  /\ fn = "runHornGenerator"
  /\ results.procs[k].state = "errored"
  /\ Settle("threw", [rejected |-> "Generator failed"])
  /\ results' = [results EXCEPT !.procs[k].state = "failed"]
  /\ UNCHANGED <<fn, args>>

NextHorn ==
  \E k \in 1..Len(results.procs) :
    HornError(k) \/ HornClose(k) \/ HornCloseAfterError(k)

SpecHorn == InitHorn /\ [][NextHorn]_vars

\* process k did not start: it emitted 'error'
FailedToStart(proc) == proc.state \in {"errored", "failed"}

\* C25: in runHornGenerator, whatever the spawned processes emit, the
\* commands are spawned in the order freecadcmd, python3, python, each at
\* most once, never two are running at the same time, and command k + 1 is
\* spawned only after command k failed to start.
C25_CommandsTriedInOrder ==
  fn = "runHornGenerator" =>
    LET procs == results.procs
    IN  /\ Len(procs) <= Len(tryCommands)
        /\ \A k \in 1..Len(procs) : procs[k].cmd = tryCommands[k]
        /\ Cardinality({k \in 1..Len(procs) : procs[k].state = "spawned"}) <= 1
        /\ \A k \in 1..(Len(procs) - 1) : FailedToStart(procs[k])

\* C26: in runHornGenerator an event of a command that failed to start
\* never settles the promise, and the promise rejects with 'No Python
\* interpreter found' only after all three commands failed to start.
C26_FailedCommandNeverSettles ==
  [][fn = "runHornGenerator" /\ pc = "running" /\ pc' # "running" =>
       /\ ~\E k \in 1..Len(results.procs) :
             /\ results.procs[k].state = "errored"
             /\ results'.procs[k].state = "failed"
       /\ ret' = [rejected |-> "No Python interpreter found"] =>
             /\ Len(results'.procs) = Len(tryCommands)
             /\ \A k \in 1..Len(tryCommands) :
                   FailedToStart(results'.procs[k])]_vars

(***************************************************************************)
(* Geometry server (FreeCAD): generate_hilbert, generate_peano,            *)
(* generate_mandelbrot                                                     *)
(***************************************************************************)
\* results is the set of files the handler has written; ret is its response.
\* generateId(): Date.now() and Math.random() in base 36
GeneratedIds == {"lx3k2a_f81c0d", "lx3k2b_07qz9m"}

\* what the awaited runHornGenerator can give: the parsed JSON of the
\* generator, with a profile, with an empty profile or without one, or a
\* rejection
GeneratorOutcomes ==
  {[settled |-> "resolved",
    result |-> [vertices |-> 7200,
                profile |-> Horn(Div(127 * Scale, 10), 150 * Scale, 400)]],
   [settled |-> "resolved", result |-> [vertices |-> 7200, profile |-> <<>>]],
   [settled |-> "resolved", result |-> [vertices |-> 7200]],
   [settled |-> "rejected", message |-> "Generator failed"]}

\* if (result.profile): a missing key is undefined, an array is truthy
HasProfile(result) == "profile" \in DOMAIN result

\* path.join(ARTIFACTS_DIR, `${stem}_${id}.stl`)
MeshPath(stem, id) == [stem |-> stem, id |-> id, ext |-> ".stl"]

\* outputPath.replace(".stl", "_profile.json")
ProfilePath(outputPath) == [outputPath EXCEPT !.ext = "_profile.json"]

\* The part the three handlers share after ensureArtifactsDir and
\* generateId: await runHornGenerator, build the enhanced result, write
\* the profile if the generator returned one, respond; any exception in
\* between gives the error response.
GenerateWithFreecad(curve_type, stem) ==
  \E mkdir \in FsOutcomes, id \in GeneratedIds,
     generator \in GeneratorOutcomes, writeFile \in FsOutcomes :
    LET outputPath == MeshPath(stem, id)
        files == [mesh |-> outputPath, profile |-> ProfilePath(outputPath)]
    IN  IF mkdir = "fails"
        THEN /\ pc' = "threw"
             /\ ret' = [threw |-> "mkdir"]
             /\ UNCHANGED results
        ELSE IF generator.settled = "rejected"
        THEN /\ pc' = "returned"
             /\ ret' = ErrorResponse(generator.message)
             /\ UNCHANGED results
        ELSE IF HasProfile(generator.result) /\ writeFile = "fails"
        THEN /\ pc' = "returned"
             /\ ret' = ErrorResponse("EACCES: permission denied")
             /\ UNCHANGED results
        ELSE /\ pc' = "returned"
             /\ ret' = [isError |-> FALSE,
                        geometry_id |-> id,
                        curve_type |-> curve_type,
                        result |-> generator.result,
                        files |-> files]
             /\ results' = IF HasProfile(generator.result)
                           THEN results \cup {files.profile}
                           ELSE results

\* the parameters drawn: every order, every iteration count, three
\* Mandelbrot iteration counts and two values of c (in 1/100)
FreecadCalls ==
  {[fn |-> "freecad.generate_hilbert", args |-> [order |-> o]] : o \in 1..6}
  \cup {[fn |-> "freecad.generate_peano", args |-> [iterations |-> i]] :
          i \in 1..5}
  \cup {[fn |-> "freecad.generate_mandelbrot",
         args |-> [iterations |-> i, c_real |-> c[1], c_imag |-> c[2]]] :
          i \in {10, 100, 1000}, c \in {<<-75, 0>>, <<-10, -75>>}}

InitFreecad ==
  /\ \E call \in FreecadCalls : fn = call.fn /\ args = call.args
  /\ pc = "running"
  /\ ret = Pending
  /\ results = {}

freecad_generate_hilbert ==
  /\ fn = "freecad.generate_hilbert"
  /\ pc = "running"
  /\ GenerateWithFreecad("hilbert", <<"hilbert_o", args.order>>)
  /\ UNCHANGED <<fn, args>>

freecad_generate_peano ==
  /\ fn = "freecad.generate_peano"
  /\ pc = "running"
  /\ GenerateWithFreecad("peano", <<"peano_i", args.iterations>>)
  /\ UNCHANGED <<fn, args>>

\* cStr is c_real with "-" replaced by "n", then "p" or "n" for the sign of
\* c_imag, then |c_imag|, both with two decimals
freecad_generate_mandelbrot ==
  /\ fn = "freecad.generate_mandelbrot"
  /\ pc = "running"
  /\ GenerateWithFreecad("mandelbrot",
       <<"mandelbrot_c",
         IF args.c_real < 0 THEN "n" ELSE "", Abs(args.c_real),
         IF args.c_imag >= 0 THEN "p" ELSE "n", Abs(args.c_imag)>>)
  /\ UNCHANGED <<fn, args>>

NextFreecad ==
  freecad_generate_hilbert \/ freecad_generate_peano
    \/ freecad_generate_mandelbrot

SpecFreecad == InitFreecad /\ [][NextFreecad]_vars

\* C28: in the FreeCAD generate_hilbert, generate_peano and
\* generate_mandelbrot, whenever a successful response names a profile file
\* in files.profile, the profile JSON has been written to that path before
\* the response is returned.
C28_NamedProfileWritten ==
  (fn \in {"freecad.generate_hilbert", "freecad.generate_peano",
           "freecad.generate_mandelbrot"}
     /\ pc = "returned" /\ ~ret.isError)
    => ret.files.profile \in results

(***************************************************************************)
(* Acoustics server: polar_response                                        *)
(***************************************************************************)
\* Levels are in 1/10 dB, angles in degrees, frequencies in 1/10 Hz.
\* the step of the polar pattern (degrees)
AngleStep == 5

\* the last angle of the polar pattern (degrees)
MaxAngle == 180

\* variant whose loop stops before 180 degrees (angle < 180)
PolarAnglesExclusive == [i \in 1..(MaxAngle \div AngleStep) |-> (i - 1) * AngleStep]

\* for (let angle = 0; angle <= 180; angle += 5)
PolarAngles == [i \in 1..(MaxAngle \div AngleStep + 1) |-> (i - 1) * AngleStep]

\* d of the piston-in-baffle model at one angle: 2 * J1(x) / x with
\* x = ka * sin(angle), J1 by its series below 3 and its asymptote above
\* (j1 is kept in 1/Scale^2)
Directivity(ka, angle) ==
  IF angle = 0 THEN Scale
  ELSE LET angleRad == Div(angle * Pi, 180)
           x == Mul(ka, Sin(angleRad))
           x2 == Mul(x, x)
           j1 == IF x < 3 * Scale
                 THEN Div(x * (Scale - Div(x2, 8) + Div(Mul(x2, x2), 192)), 2)
                 ELSE Sqrt(Div(2 * Scale * Scale, Mul(Pi, x)))
                        * Cos(x - Div(3 * Pi, 4))
       IN  IF x = 0 THEN Scale ELSE Div(2 * j1, x)

\* Math.round(20 * Math.log10(Math.max(Math.abs(d), 1e-10)) * 10) / 10
RelativeSpl(d) ==
  IF d = 0 THEN -2000
  ELSE (400 * Ln(Abs(d)) + Ln10) \div (2 * Ln10)

polarData(ka) ==
  [i \in 1..Len(PolarAngles) |->
     [angle_deg |-> PolarAngles[i],
      relative_spl_db |-> RelativeSpl(Directivity(ka, PolarAngles[i]))]]

\* variant that reports the angle found without doubling it
RECURSIVE CoverageHalfAngle(_, _, _)
CoverageHalfAngle(data, threshold, i) ==
  IF i > Len(data) THEN 180
  ELSE IF data[i].relative_spl_db < threshold THEN data[i].angle_deg
  ELSE CoverageHalfAngle(data, threshold, i + 1)

\* found ? found.angle_deg * 2 : 180, with found = data.find(p =>
\* p.relative_spl_db < threshold), searched from index i
RECURSIVE CoverageAngle(_, _, _)
CoverageAngle(data, threshold, i) ==
  IF i > Len(data) THEN 180
  ELSE IF data[i].relative_spl_db < threshold THEN data[i].angle_deg * 2
  ELSE CoverageAngle(data, threshold, i + 1)

\* the sum of d * d * sin(theta) over all entries but the last, with
\* d = 10 ** (relative_spl_db / 20); d * d and the sum are in 1/Scale^2
RECURSIVE SolidAngleSum(_, _)
SolidAngleSum(data, i) ==
  IF i >= Len(data) THEN 0
  ELSE LET dd == Exp(Div(data[i].relative_spl_db * Ln10, 100)
                     + Ln(Scale * Scale))
           theta == Div(data[i].angle_deg * Pi, 180)
       IN  Mul(dd, Sin(theta)) + SolidAngleSum(data, i + 1)

\* Math.round(di * 10) / 10 with di = 10 * log10(2 / solidAngle), 0 when
\* the solid angle is not positive; solidAngle = sum * dTheta
DirectivityIndex(data) ==
  LET sum == SolidAngleSum(data, 1)
      dTheta == Div(AngleStep * Pi, 180)
      lnSolidAngle == Ln(sum) - Ln(Scale * Scale) + Ln(dTheta)
  IN  IF sum > 0
      THEN (200 * (Ln(2 * Scale) - lnSolidAngle) + Ln10) \div (2 * Ln10)
      ELSE 0

\* the result polar_response builds for a parsed, non-empty profile
PolarResult(profile, frequency_hz) ==
  LET mouthRadius == profile[Len(profile)].radius
      ka == MouthKa(frequency_hz, mouthRadius)
  IN  CHOOSE result \in
        {[isError |-> FALSE,
          frequency_hz |-> frequency_hz,
          ka |-> ka,
          mouth_diameter_mm |-> mouthRadius * 2,
          coverage_angles |->
            [horizontal_6db_deg |-> CoverageAngle(data, -60, 1),
             horizontal_10db_deg |-> CoverageAngle(data, -100, 1)],
          directivity_index_db |-> DirectivityIndex(data),
          beamwidth_interpretation |->
            IF ka < Scale THEN "Omnidirectional (ka < 1)"
            ELSE IF ka < 3 * Scale THEN "Wide coverage"
            ELSE IF ka < 10 * Scale THEN "Moderate beaming"
            ELSE "Highly directional",
          polar_data |-> data] : data \in {polarData(ka)}} : TRUE

\* the evaluation frequencies drawn (1/10 Hz): 100 Hz to 20 kHz
PolarFrequencies ==
  {1000, 3000, 5000, 7000, 8000, 9000, 10000, 11000, 12000, 15000, 20000,
   30000, 50000, 100000, 200000}

InitPolar ==
  /\ fn = "polar_response"
  /\ args \in [profile_path : Paths, frequency_hz : PolarFrequencies]
  /\ pc = "running"
  /\ ret = Pending
  /\ results = <<>>

\* The polar_response handler.
polar_response ==
  /\ fn = "polar_response"
  /\ pc = "running"
  /\ ret' = LET file == FileContent[args.profile_path]
            IN  IF file.kind = "absent"
                THEN ErrorResponse("ENOENT: no such file or directory")
                ELSE IF file.kind = "text"
                THEN ErrorResponse("Unexpected token in JSON")
                ELSE IF Len(file.profile) = 0
                THEN ErrorResponse("Cannot read properties of undefined")
                ELSE PolarResult(file.profile, args.frequency_hz)
  /\ pc' = "returned"
  /\ UNCHANGED <<fn, args, results>>

NextPolar == polar_response

SpecPolar == InitPolar /\ [][NextPolar]_vars

\* polar_response has returned a result
PolarReturned == fn = "polar_response" /\ pc = "returned" /\ ~ret.isError

\* the sampled angles of the response whose level is below threshold
AnglesBelow(threshold) ==
  {ret.polar_data[i].angle_deg : i \in
     {j \in 1..Len(ret.polar_data) :
        ret.polar_data[j].relative_spl_db < threshold}}

\* twice the smallest angle of a set of angles, 180 for the empty set
TwiceSmallest(angles) ==
  IF angles = {} THEN 180
  ELSE 2 * (CHOOSE a \in angles : \A b \in angles : a <= b)

\* C21: in polar_response each coverage angle (-6 dB and -10 dB) is twice
\* the smallest sampled angle whose level is below the threshold, and 180
\* when no sampled angle is below it.
C21_CoverageIsTwiceFirstCrossing ==
  PolarReturned =>
    /\ ret.coverage_angles.horizontal_6db_deg = TwiceSmallest(AnglesBelow(-60))
    /\ ret.coverage_angles.horizontal_10db_deg
         = TwiceSmallest(AnglesBelow(-100))

\* a pattern that crosses -6 dB off axis but never -10 dB
C21_Witness ==
  /\ PolarReturned
  /\ AnglesBelow(-60) # {}
  /\ Cardinality(AnglesBelow(-60)) > 1
  /\ AnglesBelow(-100) = {}

\* C22: the polar pattern of polar_response covers 0 to 180 degrees at the
\* fixed step, and its on-axis entry (angle 0) has relative level 0 dB for
\* every frequency and mouth radius.
C22_OnAxisNormalized ==
  PolarReturned =>
    /\ Len(ret.polar_data) = MaxAngle \div AngleStep + 1
    /\ \A i \in 1..Len(ret.polar_data) :
         ret.polar_data[i].angle_deg = (i - 1) * AngleStep
    /\ ret.polar_data[Len(ret.polar_data)].angle_deg = MaxAngle
    /\ ret.polar_data[1].relative_spl_db = 0

\* a highly directional pattern: every entry next to the axis is far below
\* the on-axis level
C22_Witness ==
  /\ PolarReturned
  /\ ret.ka >= 10 * Scale
  /\ ret.polar_data[2].relative_spl_db < -100
  /\ ret.polar_data[1].relative_spl_db = 0

\* C29: the coverage angles of polar_response satisfy
\* 10 <= horizontal_6db_deg <= horizontal_10db_deg <= 180 for every
\* frequency and mouth radius.
C29_CoverageAnglesOrdered ==
  PolarReturned =>
    /\ 10 <= ret.coverage_angles.horizontal_6db_deg
    /\ ret.coverage_angles.horizontal_6db_deg
         <= ret.coverage_angles.horizontal_10db_deg
    /\ ret.coverage_angles.horizontal_10db_deg <= 180

\* both thresholds are crossed, at different angles
C29_Witness ==
  /\ PolarReturned
  /\ ret.coverage_angles.horizontal_6db_deg
       < ret.coverage_angles.horizontal_10db_deg
  /\ ret.coverage_angles.horizontal_10db_deg < 180

====
